---- MODULE Spec2Model ----
(***************************************************************************)
(* State-machine model of the GST invoice agent: the persistence layer     *)
(* (customers, invoices, invoice items, payments), the persisted invoice   *)
(* orchestrator, the payment ledger, the recurring billing agent, the      *)
(* backup agent's restore, the authentication agent and the security       *)
(* agent's rate limiter.                                                   *)
(*                                                                         *)
(* Money is kept in paise (1/100 rupee) as integers; item prices are given *)
(* in mills (1/1000 rupee) so that rounding to two decimals does real work.*)
(* Python floats are modelled by exact arithmetic on these integers.       *)
(***************************************************************************)
EXTENDS Integers, Sequences, FiniteSets, Bags, TLC

VARIABLES
    customers,       \* Customer table, row id = position
    invoices,        \* Invoice table, row id = position
    invoice_items,   \* InvoiceItem table
    payments,        \* Payment table
    recurring,       \* RecurringInvoice table
    users,           \* User table
    request_counts,  \* SecurityAgent.request_counts: identifier -> list of timestamps
    blocked_ips,     \* SecurityAgent.blocked_ips
    now,             \* wall clock in half seconds (time.time / datetime.utcnow)
    today,           \* datetime.now().date() as <<year, month, day>>
    tokens,          \* access tokens handed out by login_user
    pending,         \* per caller, what the call in flight has read and built so far
    audit_logs,      \* AuditLog table
    checked,        \* history: bag of rate-limited calls <<identifier, limit_type, time, allowed>>
    result           \* the last call and what it returned

vars == <<customers, invoices, invoice_items, payments, recurring, users,
          request_counts, blocked_ips, now, today, tokens, pending, audit_logs,
          checked, result>>

dbVars == <<customers, invoices, invoice_items, payments>>

(***************************************************************************)
(* Bounds of the model                                                     *)
(***************************************************************************)
MaxInvoices == 2
MaxPayments == 2
MaxTemplates == 1
MaxGenerated == 2
MaxSecInstants == 3
MaxAuthInstants == 6
MaxTokens == 2
MaxDays == 3
MaxAuditLogs == 2
MaxAccepted == 7
MaxRejected == 2

(***************************************************************************)
(* Python helpers                                                          *)
(***************************************************************************)
None == "None"

\* a None held or returned where a dict is held or returned otherwise
NoneValue == [none |-> TRUE]

\* the callers whose create_invoice calls can be in flight at once
Callers == {"c1", "c2"}

\* dict.get(key, default)
Get(d, k, default) == IF k \in DOMAIN d THEN d[k] ELSE default

\* sum(...) over a list of numbers
RECURSIVE SumSeq(_)
SumSeq(s) == IF s = <<>> THEN 0 ELSE Head(s) + SumSeq(Tail(s))

Max(a, b) == IF a >= b THEN a ELSE b

\* round(n / d) to the nearest integer, ties to even (Python's round); d > 0, n >= 0
RoundDiv(n, d) ==
    LET q == n \div d
        r == n % d
    IN  IF 2 * r < d THEN q
        ELSE IF 2 * r > d THEN q + 1
        ELSE IF q % 2 = 0 THEN q ELSE q + 1

(***************************************************************************)
(* Input Validator (validator.py)                                          *)
(***************************************************************************)
VALID_GST_RATES == {0, 5, 12, 18, 28}

\* Names the model draws from; a name is valid when its trimmed length is in 2..100
NameLen(name) ==
    CASE name = ""  -> 0
      [] name = "A" -> 1
      [] OTHER      -> 5

validate_customer_name(name) == NameLen(name) >= 2 /\ NameLen(name) <= 100

validate_item_name(name) == NameLen(name) >= 2 /\ NameLen(name) <= 200

\* PHONE_PATTERN ^[6-9]\d{9}$ over the phones the model draws from
PhonesMatchingPattern == {"9876543210", "9123456789", "8000000001"}

validate_phone(phone) == phone \in PhonesMatchingPattern

\* EMAIL_PATTERN over the emails the model draws from
EmailsMatchingPattern == {"a@x.in", "b@x.in", "c@x.in"}

validate_email(email) == email # "" /\ email \in EmailsMatchingPattern

\* price is in mills; the ceiling is 10,000,000 rupees
validate_price(price) ==
    /\ price >= 0
    /\ \/ price \div 1000 < 10000000
       \/ price \div 1000 = 10000000 /\ price % 1000 = 0

validate_quantity(quantity) == quantity > 0 /\ quantity <= 100000

validate_gst_rate(rate) == rate \in VALID_GST_RATES

validate_invoice_item(item) ==
    /\ validate_item_name(Get(item, "name", ""))
    /\ validate_price(Get(item, "price", 0))
    /\ validate_quantity(Get(item, "quantity", 0))
    /\ validate_gst_rate(Get(item, "gst_rate", 0))

\* the GST numbers among the inputs that match GST_PATTERN
GstNumbersMatchingPattern == {"36ABCDE1234F1Z5"}

validate_gst_number(gst_number) ==
    gst_number = "" \/ gst_number \in GstNumbersMatchingPattern

validate_customer_details(customer) ==
    /\ validate_customer_name(Get(customer, "name", ""))
    /\ validate_phone(Get(customer, "phone", ""))
    /\ ("email" \in DOMAIN customer /\ customer.email # "" => validate_email(customer.email))
    /\ ("gst_number" \in DOMAIN customer /\ customer.gst_number # ""
           => validate_gst_number(customer.gst_number))

(***************************************************************************)
(* Per-item tax computation used by the orchestrators:                     *)
(* GSTCalculator(base_price, gst_rate, quantity).calculate()               *)
(***************************************************************************)
\* the engine's own check: price and quantity must be positive, rate valid
CalcAccepts(item) ==
    item.price > 0 /\ item.quantity > 0 /\ item.gst_rate \in VALID_GST_RATES

\* price in mills, results in paise rounded to 2 decimals
CalcItem(item) ==
    LET base == item.price * item.quantity      \* mills
    IN  [quantity            |-> item.quantity,
         base_price_per_unit |-> item.price,
         total_base_amount   |-> RoundDiv(base, 10),
         gst_rate            |-> item.gst_rate,
         cgst                |-> RoundDiv(base * item.gst_rate, 2000),
         sgst                |-> RoundDiv(base * item.gst_rate, 2000),
         total_gst           |-> RoundDiv(base * item.gst_rate, 1000),
         final_price         |-> RoundDiv(base * (100 + item.gst_rate), 1000)]

(***************************************************************************)
(* Persistence Operations (db_operations.py)                               *)
(***************************************************************************)
\* db.query(Customer).filter(Customer.phone == phone).first(); 0 when absent
CustomerByPhone(custs, phone) ==
    IF \E i \in 1..Len(custs) : custs[i].phone = phone
    THEN CHOOSE i \in 1..Len(custs) :
            /\ custs[i].phone = phone
            /\ \A j \in 1..Len(custs) : custs[j].phone = phone => i <= j
    ELSE 0

\* create_or_get_customer without the lookup by phone
create_or_get_customer_AlwaysInsert(custs, cd) ==
    Append(custs, [name       |-> cd.name,
                   phone      |-> cd.phone,
                   email      |-> Get(cd, "email", ""),
                   address    |-> Get(cd, "address", ""),
                   gst_number |-> Get(cd, "gst_number", ""),
                   state      |-> Get(cd, "state", "Telangana")])

\* the Customer table after create_or_get_customer(db, customer_data)
create_or_get_customer(custs, cd) ==
    LET i == CustomerByPhone(custs, cd.phone)
    IN  IF i # 0
        THEN [custs EXCEPT ![i] =
                [name       |-> cd.name,
                 phone      |-> @.phone,
                 email      |-> Get(cd, "email", @.email),
                 address    |-> Get(cd, "address", @.address),
                 gst_number |-> Get(cd, "gst_number", @.gst_number),
                 state      |-> Get(cd, "state", @.state)]]
        ELSE Append(custs,
                [name       |-> cd.name,
                 phone      |-> cd.phone,
                 email      |-> Get(cd, "email", ""),
                 address    |-> Get(cd, "address", ""),
                 gst_number |-> Get(cd, "gst_number", ""),
                 state      |-> Get(cd, "state", "Telangana")])

\* a slip in the lookup: an unknown number falls back to the first invoice
get_invoice_by_number_OrFirst(invs, number) ==
    IF \E i \in 1..Len(invs) : invs[i].invoice_number = number
    THEN CHOOSE i \in 1..Len(invs) :
            /\ invs[i].invoice_number = number
            /\ \A j \in 1..Len(invs) : invs[j].invoice_number = number => i <= j
    ELSE IF Len(invs) > 0 THEN 1 ELSE 0

\* db.query(Invoice).filter(Invoice.invoice_number == n).first(); 0 when absent
get_invoice_by_number(invs, number) ==
    IF \E i \in 1..Len(invs) : invs[i].invoice_number = number
    THEN CHOOSE i \in 1..Len(invs) :
            /\ invs[i].invoice_number = number
            /\ \A j \in 1..Len(invs) : invs[j].invoice_number = number => i <= j
    ELSE 0

\* an invoice number INV-<year>-<sequence> is the list of its '-' separated parts
InvoiceNumber(year, n) == <<"INV", year, n>>

\* int(invoice_number.split('-')[-1])
TrailingInteger(number) == number[Len(number)]

\* a slip in the starting value: the first invoice gets 1001
get_next_invoice_number_From1001(invs) ==
    IF Len(invs) = 0 THEN 1001
    ELSE TrailingInteger(invs[Len(invs)].invoice_number) + 1

get_next_invoice_number(invs) ==
    IF Len(invs) = 0 THEN 1000
    ELSE TrailingInteger(invs[Len(invs)].invoice_number) + 1

\* a slip in the totals: total_quantity counts the lines, not the units
InvoiceTotals_CountLines(calculated_items) ==
    LET n == Len(calculated_items)
    IN  [subtotal       |-> SumSeq([i \in 1..n |-> calculated_items[i].subtotal]),
         total_cgst     |-> SumSeq([i \in 1..n |-> calculated_items[i].cgst_amount]),
         total_sgst     |-> SumSeq([i \in 1..n |-> calculated_items[i].sgst_amount]),
         total_gst      |-> SumSeq([i \in 1..n |-> calculated_items[i].total_gst]),
         grand_total    |-> SumSeq([i \in 1..n |-> calculated_items[i].total_amount]),
         total_items    |-> n,
         total_quantity |-> n]

\* Step 4 of InvoiceAgentDB.create_invoice: the totals block of the invoice
\* (round(x, 2) of a sum of paise amounts is that sum)
InvoiceTotals(calculated_items) ==
    LET n == Len(calculated_items)
    IN  [subtotal       |-> SumSeq([i \in 1..n |-> calculated_items[i].subtotal]),
         total_cgst     |-> SumSeq([i \in 1..n |-> calculated_items[i].cgst_amount]),
         total_sgst     |-> SumSeq([i \in 1..n |-> calculated_items[i].sgst_amount]),
         total_gst      |-> SumSeq([i \in 1..n |-> calculated_items[i].total_gst]),
         grand_total    |-> SumSeq([i \in 1..n |-> calculated_items[i].total_amount]),
         total_items    |-> n,
         total_quantity |-> SumSeq([i \in 1..n |-> calculated_items[i].quantity])]

\* Step 3 of InvoiceAgentDB.create_invoice: one calculated item per input item
CalculatedItems(items) ==
    [i \in 1..Len(items) |->
        LET calc == CalcItem(items[i])
        IN  [name         |-> items[i].name,
             quantity     |-> calc.quantity,
             unit_price   |-> calc.base_price_per_unit,
             subtotal     |-> calc.total_base_amount,
             gst_rate     |-> calc.gst_rate,
             cgst_amount  |-> calc.cgst,
             sgst_amount  |-> calc.sgst,
             total_gst    |-> calc.total_gst,
             total_amount |-> calc.final_price]]

\* the Invoice row DatabaseOperations.create_invoice inserts
InvoiceRow(invoice_data, customer_id) ==
    [invoice_number |-> invoice_data.invoice_number,
     customer_id    |-> customer_id,
     subtotal       |-> invoice_data.totals.subtotal,
     total_cgst     |-> invoice_data.totals.total_cgst,
     total_sgst     |-> invoice_data.totals.total_sgst,
     total_gst      |-> invoice_data.totals.total_gst,
     grand_total    |-> invoice_data.totals.grand_total,
     total_items    |-> invoice_data.totals.total_items,
     total_quantity |-> invoice_data.totals.total_quantity,
     payment_status |-> Get(invoice_data, "payment_status", "Pending"),
     payment_method |-> Get(invoice_data, "payment_method", ""),
     status         |-> Get(invoice_data, "status", "Draft")]

\* the InvoiceItem rows DatabaseOperations.create_invoice inserts
InvoiceItemRows(invoice_data, invoice_id) ==
    [i \in 1..Len(invoice_data.items) |->
        [invoice_id   |-> invoice_id,
         name         |-> invoice_data.items[i].name,
         quantity     |-> invoice_data.items[i].quantity,
         unit_price   |-> invoice_data.items[i].unit_price,
         subtotal     |-> invoice_data.items[i].subtotal,
         gst_rate     |-> invoice_data.items[i].gst_rate,
         cgst_amount  |-> invoice_data.items[i].cgst_amount,
         sgst_amount  |-> invoice_data.items[i].sgst_amount,
         total_gst    |-> invoice_data.items[i].total_gst,
         total_amount |-> invoice_data.items[i].total_amount]]

\* a schema without the unique constraint on invoice_number: every save succeeds
db_create_invoice_NoConstraint(invoice_data) ==
    LET custs == create_or_get_customer(customers, invoice_data.customer)
        cid   == CustomerByPhone(custs, invoice_data.customer.phone)
        iid   == Len(invoices) + 1
    IN  /\ customers' = custs
        /\ invoices' = Append(invoices, InvoiceRow(invoice_data, cid))
        /\ invoice_items' = invoice_items \o InvoiceItemRows(invoice_data, iid)
        /\ result' = [op |-> "create_invoice", success |-> TRUE,
                      invoice_number |-> invoice_data.invoice_number,
                      invoice_id |-> iid,
                      phone |-> invoice_data.customer.phone,
                      customer |-> invoice_data.customer]

\* DatabaseOperations.create_invoice(db, invoice_data): the customer upsert is
\* committed on its own; the invoice and its items are committed together, and
\* the unique constraint on invoice_number makes the flush raise
db_create_invoice(invoice_data) ==
    LET custs == create_or_get_customer(customers, invoice_data.customer)
        cid   == CustomerByPhone(custs, invoice_data.customer.phone)
        iid   == Len(invoices) + 1
    IN  /\ customers' = custs
        /\ IF get_invoice_by_number(invoices, invoice_data.invoice_number) # 0
           THEN /\ UNCHANGED <<invoices, invoice_items>>
                /\ result' = [op |-> "create_invoice", success |-> FALSE,
                              error |-> "Database error",
                              phone |-> invoice_data.customer.phone]
           ELSE /\ invoices' = Append(invoices, InvoiceRow(invoice_data, cid))
                /\ invoice_items' = invoice_items \o InvoiceItemRows(invoice_data, iid)
                /\ result' = [op |-> "create_invoice", success |-> TRUE,
                              invoice_number |-> invoice_data.invoice_number,
                              invoice_id |-> iid,
                              phone |-> invoice_data.customer.phone,
                              customer |-> invoice_data.customer]

(***************************************************************************)
(* Payment Ledger Operations (payment_operations.py)                       *)
(***************************************************************************)
\* PaymentOperations.get_total_paid(db, invoice_id)
get_total_paid(pays, invoice_id) ==
    LET mine == SelectSeq(pays, LAMBDA p : p.invoice_id = invoice_id)
    IN  SumSeq([i \in 1..Len(mine) |-> mine[i].amount])

\* a slip in the comparison: an exact settlement is not yet Paid
PaymentStatus_Strict(total_paid, grand_total) ==
    IF total_paid > grand_total THEN "Paid"
    ELSE IF total_paid > 0 THEN "Partial"
    ELSE "Pending"

\* the status PaymentOperations.add_payment derives from the total paid
PaymentStatus(total_paid, grand_total) ==
    IF total_paid >= grand_total THEN "Paid"
    ELSE IF total_paid > 0 THEN "Partial"
    ELSE "Pending"

\* add_payment that derives the status from the new payment alone
PaymentOperations_add_payment_ThisPaymentOnly(invoice_id, amount, payment_method) ==
    LET total_paid == amount
    IN  /\ payments' = Append(payments, [invoice_id     |-> invoice_id,
                                         amount         |-> amount,
                                         payment_method |-> payment_method])
        /\ invoices' = [invoices EXCEPT ![invoice_id] =
                            [@ EXCEPT !.payment_status =
                                          PaymentStatus(total_paid, invoices[invoice_id].grand_total),
                                      !.payment_method = payment_method]]

\* PaymentOperations.add_payment(db, invoice_id, amount, payment_method): the
\* session does not autoflush, so get_total_paid does not see the new row yet
PaymentOperations_add_payment(invoice_id, amount, payment_method) ==
    LET total_paid == get_total_paid(payments, invoice_id) + amount
    IN  /\ payments' = Append(payments, [invoice_id     |-> invoice_id,
                                         amount         |-> amount,
                                         payment_method |-> payment_method])
        /\ invoices' = [invoices EXCEPT ![invoice_id] =
                            [@ EXCEPT !.payment_status =
                                          PaymentStatus(total_paid, invoices[invoice_id].grand_total),
                                      !.payment_method = payment_method]]

(***************************************************************************)
(* Invoice Orchestrator, persisted (invoice_agent_db.py)                   *)
(***************************************************************************)
\* InvoiceAgentDB._generate_invoice_number with datetime.now().year = year
generate_invoice_number(year) == InvoiceNumber(year, get_next_invoice_number(invoices))

\* Steps 3 to 6 of InvoiceAgentDB.create_invoice: the calculated items, the
\* totals, the invoice number read from the stored invoices, and the dict
BuildInvoiceData(customer, items, year) ==
    LET calculated_items == CalculatedItems(items)
    IN  [invoice_number |-> generate_invoice_number(year),
         status         |-> "DRAFT",
         payment_status |-> "Pending",
         payment_method |-> None,
         customer       |-> customer,
         items          |-> calculated_items,
         totals         |-> InvoiceTotals(calculated_items)]

\* the inputs that pass steps 1 to 3 of InvoiceAgentDB.create_invoice
CreateInvoiceAccepts(customer, items) ==
    /\ validate_customer_details(customer)
    /\ items # <<>>
    /\ \A i \in 1..Len(items) : validate_invoice_item(items[i])
    /\ \A i \in 1..Len(items) : CalcAccepts(items[i])

\* InvoiceAgentDB.create_invoice up to the generated invoice number (steps 1
\* to 6) for inputs that are accepted; the call has not saved anything yet
create_invoice_begin(caller, customer, items, year) ==
    /\ pending[caller] = NoneValue
    /\ Len(invoices) + Cardinality({c \in Callers : pending[c] # NoneValue}) < MaxInvoices
    /\ CreateInvoiceAccepts(customer, items)
    /\ pending' = [pending EXCEPT ![caller] = BuildInvoiceData(customer, items, year)]
    /\ result' = [op |-> "create_invoice_begin", caller |-> caller]
    /\ UNCHANGED <<customers, invoices, invoice_items, payments, recurring, users,
                   request_counts, blocked_ips, now, today, checked, audit_logs, tokens>>

\* Step 7 of InvoiceAgentDB.create_invoice for the call in flight: the save
\* through DatabaseOperations.create_invoice and the returned result
create_invoice_save(caller) ==
    /\ pending[caller] # NoneValue
    /\ db_create_invoice(pending[caller])
    /\ pending' = [pending EXCEPT ![caller] = NoneValue]
    /\ UNCHANGED <<payments, recurring, users, request_counts, blocked_ips,
                   now, today, checked, audit_logs, tokens>>

\* InvoiceAgentDB.create_invoice(customer, items, notes)
create_invoice(customer, items, year) ==
    /\ Len(invoices) < MaxInvoices
    /\ UNCHANGED <<payments, recurring, users, request_counts, blocked_ips,
                   now, today, checked, audit_logs, pending, tokens>>
    /\ IF ~validate_customer_details(customer)
       THEN /\ result' = [op |-> "create_invoice", success |-> FALSE,
                          error |-> "Customer validation failed",
                          phone |-> Get(customer, "phone", "")]
            /\ UNCHANGED <<customers, invoices, invoice_items>>
       ELSE IF items = <<>>
       THEN /\ result' = [op |-> "create_invoice", success |-> FALSE,
                          error |-> "Invoice must have at least one item",
                          phone |-> customer.phone]
            /\ UNCHANGED <<customers, invoices, invoice_items>>
       ELSE IF \E i \in 1..Len(items) : ~validate_invoice_item(items[i])
       THEN /\ result' = [op |-> "create_invoice", success |-> FALSE,
                          error |-> "Item validation failed",
                          phone |-> customer.phone]
            /\ UNCHANGED <<customers, invoices, invoice_items>>
       ELSE IF \E i \in 1..Len(items) : ~CalcAccepts(items[i])
       THEN \* the engine raises and nothing in create_invoice catches it
            /\ result' = [op |-> "create_invoice", raised |-> "ValueError",
                          phone |-> customer.phone]
            /\ UNCHANGED <<customers, invoices, invoice_items>>
       ELSE db_create_invoice(BuildInvoiceData(customer, items, year))

\* what InvoiceAgentDB.add_payment(invoice_number, amount, payment_method) does
\* to the tables
add_payment_effect(invoice_number, amount, payment_method) ==
    /\ Len(payments) < MaxPayments
    /\ UNCHANGED <<customers, invoice_items, recurring, users, request_counts,
                   blocked_ips, now, today, checked, pending, tokens>>
    /\ LET invoice_id == get_invoice_by_number(invoices, invoice_number)
       IN  IF invoice_id = 0
           THEN UNCHANGED <<invoices, payments>>
           ELSE PaymentOperations_add_payment(invoice_id, amount, payment_method)

\* the dict InvoiceAgentDB.add_payment returns, read after the commit
add_payment_return(invoice_number, amount, payment_method) ==
    LET invoice_id == get_invoice_by_number(invoices, invoice_number)
    IN  IF invoice_id = 0
        THEN [op |-> "add_payment", success |-> FALSE,
              error |-> "Invoice not found",
              invoice_number |-> invoice_number]
        ELSE LET total_paid == get_total_paid(payments', invoice_id)
             IN  [op |-> "add_payment", success |-> TRUE,
                  invoice_number |-> invoice_number,
                  invoice_id |-> invoice_id,
                  total_paid |-> total_paid,
                  remaining  |-> Max(0, invoices[invoice_id].grand_total - total_paid),
                  status     |-> invoices'[invoice_id].payment_status]

\* InvoiceAgentDB.add_payment(invoice_number, amount, payment_method)
add_payment(invoice_number, amount, payment_method) ==
    /\ add_payment_effect(invoice_number, amount, payment_method)
    /\ UNCHANGED audit_logs
    /\ result' = add_payment_return(invoice_number, amount, payment_method)

(***************************************************************************)
(* Dates: a "%Y-%m-%d" string is the triple <<year, month, day>>           *)
(***************************************************************************)
IsLeap(y) == (y % 4 = 0 /\ y % 100 # 0) \/ y % 400 = 0

DaysInMonth(y, m) ==
    IF m = 2 THEN (IF IsLeap(y) THEN 29 ELSE 28)
    ELSE IF m \in {4, 6, 9, 11} THEN 30 ELSE 31

DaysBeforeYear(y) ==
    LET p == y - 1 IN p * 365 + p \div 4 - p \div 100 + p \div 400

RECURSIVE DaysBeforeMonth(_, _)
DaysBeforeMonth(y, m) ==
    IF m = 1 THEN 0 ELSE DaysBeforeMonth(y, m - 1) + DaysInMonth(y, m - 1)

\* datetime.strptime(s, "%Y-%m-%d") as a day ordinal
strptime(d) == DaysBeforeYear(d[1]) + DaysBeforeMonth(d[1], d[2]) + d[3]

\* date.strftime("%Y-%m-%d") of a day ordinal
strftime(n) ==
    LET y == CHOOSE yy \in (n \div 366)..(n \div 365 + 1) :
                 DaysBeforeYear(yy) < n /\ n <= DaysBeforeYear(yy + 1)
        r == n - DaysBeforeYear(y)
        m == CHOOSE mm \in 1..12 :
                 /\ DaysBeforeMonth(y, mm) < r
                 /\ r <= DaysBeforeMonth(y, mm) + DaysInMonth(y, mm)
    IN  <<y, m, r - DaysBeforeMonth(y, m)>>

\* None where a date string is expected
NoDate == <<>>

\* comparison of two "%Y-%m-%d" strings, character by character
StrLess(a, b) ==
    \/ a[1] < b[1]
    \/ a[1] = b[1] /\ a[2] < b[2]
    \/ a[1] = b[1] /\ a[2] = b[2] /\ a[3] < b[3]

StrLeq(a, b) == a = b \/ StrLess(a, b)

(***************************************************************************)
(* Recurring Billing Agent (recurring_agent.py)                            *)
(***************************************************************************)
\* FREQUENCIES with calendar-like months
FREQUENCIES_Month31 ==
    [daily |-> 1, weekly |-> 7, biweekly |-> 14,
     monthly |-> 31, quarterly |-> 90, yearly |-> 365]

\* days of RecurringAgent.FREQUENCIES
FREQUENCIES ==
    [daily |-> 1, weekly |-> 7, biweekly |-> 14,
     monthly |-> 30, quarterly |-> 90, yearly |-> 365]

\* json.dumps / json.loads of the template snapshot
json_dumps(data) == <<"json", data>>

json_loads(text) == text[2]

\* column values of a new RecurringInvoice row that the code does not pass
RecurringDefaults == [invoices_generated |-> 0, last_generated |-> NoDate]

\* Customer(**customer_data): the row the flush inserts; name is NOT NULL
CustomerFromKwargs(cd) ==
         [name       |-> Get(cd, "name", None),
          phone      |-> cd.phone,
          email      |-> Get(cd, "email", None),
          address    |-> Get(cd, "address", None),
          gst_number |-> Get(cd, "gst_number", None),
          state      |-> Get(cd, "state", "Telangana")]

\* RecurringAgent.create_recurring_invoice(template_name, customer_data, items,
\*     frequency, start_date, end_date, auto_send, notes)
create_recurring_invoice(template_name, customer_data, items, frequency, start_date, end_date, auto_send, notes) ==
    /\ Len(recurring) < MaxTemplates
    /\ UNCHANGED <<invoices, invoice_items, payments, users, request_counts,
                   blocked_ips, now, today, checked, audit_logs, pending, tokens>>
    /\ IF frequency \notin DOMAIN FREQUENCIES
       THEN /\ result' = [op |-> "create_recurring_invoice", success |-> FALSE,
                          error |-> "Invalid frequency"]
            /\ UNCHANGED <<customers, recurring>>
       ELSE IF "phone" \notin DOMAIN customer_data
       THEN /\ result' = [op |-> "create_recurring_invoice", success |-> FALSE,
                          error |-> "KeyError"]
            /\ UNCHANGED <<customers, recurring>>
       ELSE LET existing == CustomerByPhone(customers, customer_data.phone)
                row      == CustomerFromKwargs(customer_data)
            IN  IF existing = 0 /\ row.name = None
                THEN /\ result' = [op |-> "create_recurring_invoice",
                                   success |-> FALSE, error |-> "IntegrityError",
                                   phone |-> customer_data.phone]
                     /\ UNCHANGED <<customers, recurring>>
                ELSE LET custs == IF existing = 0 THEN Append(customers, row)
                                  ELSE customers
                         cid   == IF existing = 0 THEN Len(custs) ELSE existing
                         template_data == [customer |-> customer_data,
                                           items    |-> items,
                                           notes    |-> notes]
                     IN  /\ customers' = custs
                         /\ recurring' = Append(recurring,
                               [template_name      |-> template_name,
                                customer_id        |-> cid,
                                frequency          |-> frequency,
                                start_date         |-> start_date,
                                end_date           |-> end_date,
                                next_invoice_date  |-> start_date,
                                invoice_template   |-> json_dumps(template_data),
                                auto_send          |-> IF auto_send THEN "true" ELSE "false",
                                status             |-> "active",
                                invoices_generated |-> RecurringDefaults.invoices_generated,
                                last_generated     |-> RecurringDefaults.last_generated])
                         /\ result' = [op |-> "create_recurring_invoice",
                                       success |-> TRUE,
                                       template_id |-> Len(recurring) + 1,
                                       next_invoice_date |-> start_date,
                                       phone |-> customer_data.phone]

\* generate_invoice_from_template that forgets to count the invoice
GeneratedRow_NoCount(rec, stamp) ==
    LET current_next == strptime(rec.next_invoice_date)
        freq_days    == FREQUENCIES[rec.frequency]
        new_next     == current_next + freq_days
    IN  [rec EXCEPT
            !.next_invoice_date  = strftime(new_next),
            !.last_generated     = stamp,
            !.status = IF rec.end_date # NoDate /\ StrLess(rec.end_date, strftime(new_next))
                       THEN "completed" ELSE @]

\* the row after the update part of generate_invoice_from_template
GeneratedRow(rec, stamp) ==
    LET current_next == strptime(rec.next_invoice_date)
        freq_days    == FREQUENCIES[rec.frequency]
        new_next     == current_next + freq_days
    IN  [rec EXCEPT
            !.next_invoice_date  = strftime(new_next),
            !.invoices_generated = @ + 1,
            !.last_generated     = stamp,
            !.status = IF rec.end_date # NoDate /\ StrLess(rec.end_date, strftime(new_next))
                       THEN "completed" ELSE @]

\* generate_invoice_from_template that serves active templates only
generate_invoice_from_template_ActiveOnly(template_id) ==
    /\ UNCHANGED <<customers, invoices, invoice_items, payments, users,
                   request_counts, blocked_ips, now, today, checked, audit_logs, pending, tokens>>
    /\ IF template_id \notin 1..Len(recurring)
       THEN /\ result' = [op |-> "generate_invoice_from_template",
                          success |-> FALSE, error |-> "Template not found",
                          template_id |-> template_id]
            /\ UNCHANGED recurring
       ELSE IF recurring[template_id].status # "active"
       THEN /\ result' = [op |-> "generate_invoice_from_template",
                          success |-> FALSE, error |-> "Template not active",
                          template_id |-> template_id]
            /\ UNCHANGED recurring
       ELSE /\ recurring[template_id].invoices_generated < MaxGenerated
            /\ recurring' = [recurring EXCEPT
                                ![template_id] = GeneratedRow(@, today)]
            /\ result' = [op |-> "generate_invoice_from_template",
                          success |-> TRUE,
                          invoice_data |-> json_loads(recurring[template_id].invoice_template),
                          template_id |-> template_id,
                          auto_send |-> recurring[template_id].auto_send = "true"]

\* RecurringAgent.generate_invoice_from_template(template_id)
generate_invoice_from_template(template_id) ==
    /\ UNCHANGED <<customers, invoices, invoice_items, payments, users,
                   request_counts, blocked_ips, now, today, checked, audit_logs, pending, tokens>>
    /\ IF template_id \notin 1..Len(recurring)
       THEN /\ result' = [op |-> "generate_invoice_from_template",
                          success |-> FALSE, error |-> "Template not found",
                          template_id |-> template_id]
            /\ UNCHANGED recurring
       ELSE /\ recurring[template_id].invoices_generated < MaxGenerated
            /\ recurring' = [recurring EXCEPT
                                ![template_id] = GeneratedRow(@, today)]
            /\ result' = [op |-> "generate_invoice_from_template",
                          success |-> TRUE,
                          invoice_data |-> json_loads(recurring[template_id].invoice_template),
                          template_id |-> template_id,
                          auto_send |-> recurring[template_id].auto_send = "true"]

\* RecurringAgent.update_status(template_id, status)
update_status(template_id, status) ==
    /\ UNCHANGED <<customers, invoices, invoice_items, payments, users,
                   request_counts, blocked_ips, now, today, checked, audit_logs, pending, tokens>>
    /\ IF template_id \notin 1..Len(recurring)
       THEN /\ result' = [op |-> "update_status", success |-> FALSE,
                          error |-> "Template not found"]
            /\ UNCHANGED recurring
       ELSE /\ recurring' = [recurring EXCEPT ![template_id].status = status]
            /\ result' = [op |-> "update_status", success |-> TRUE,
                          template_id |-> template_id]

\* the ids of the templates a stricter query selects: due before today only
DueQuery_BeforeToday(recs, day) ==
    { i \in 1..Len(recs) :
        recs[i].status = "active" /\ StrLess(recs[i].next_invoice_date, day) }

\* db.query(RecurringInvoice).filter(status == "active",
\*     next_invoice_date <= today): the ids of the selected templates
DueQuery(recs, day) ==
    { i \in 1..Len(recs) :
        recs[i].status = "active" /\ StrLeq(recs[i].next_invoice_date, day) }

\* "if rec.end_date and rec.end_date < today"
EndDatePassed(rec, day) == rec.end_date # NoDate /\ StrLess(rec.end_date, day)

\* the dict get_due_invoices builds for template i
DueEntry(recs, i) ==
    [id                |-> i,
     template_name     |-> recs[i].template_name,
     frequency         |-> recs[i].frequency,
     next_invoice_date |-> recs[i].next_invoice_date,
     customer_id       |-> recs[i].customer_id,
     invoice_template  |-> json_loads(recs[i].invoice_template),
     auto_send         |-> recs[i].auto_send = "true"]

\* RecurringAgent.get_due_invoices()
get_due_invoices ==
    LET selected == DueQuery(recurring, today)
        ids      == SelectSeq([i \in 1..Len(recurring) |-> i], LAMBDA i :
                        i \in selected /\ ~EndDatePassed(recurring[i], today))
    IN  /\ UNCHANGED <<customers, invoices, invoice_items, payments, users,
                       request_counts, blocked_ips, now, today, checked, audit_logs, pending, tokens>>
        /\ recurring' = [i \in 1..Len(recurring) |->
                           IF i \in selected /\ EndDatePassed(recurring[i], today)
                           THEN [recurring[i] EXCEPT !.status = "completed"]
                           ELSE recurring[i]]
        /\ result' = [op |-> "get_due_invoices",
                      ret |-> [k \in 1..Len(ids) |-> DueEntry(recurring, ids[k])]]

\* the k-th day on which the agent runs: 30 January 2025, then 1 March, 2 March
\* and on day by day
DayInstant(k) ==
    strftime(strptime(<<2025, 1, 30>>) + (IF k = 1 THEN 0 ELSE 28 + k))

\* a later day begins
TickDay ==
    /\ \E k \in 1..(MaxDays - 1) :
          /\ today = DayInstant(k)
          /\ today' = DayInstant(k + 1)
    /\ result' = [op |-> "tick"]
    /\ UNCHANGED <<customers, invoices, invoice_items, payments, recurring,
                   users, request_counts, blocked_ips, now, tokens, pending, audit_logs,
                   checked>>

(***************************************************************************)
(* Backup Agent: restore (backup_agent.py)                                 *)
(***************************************************************************)
\* the documents in the backups/ directory, by file name
BackupDir ==
    [b1 |-> [customers |->
                << [id |-> 1, name |-> "Asha", phone |-> "9876543210", email |-> "a@x.in"],
                   [id |-> 2, name |-> "Meera", phone |-> "8000000001", email |-> "c@x.in",
                    state |-> "Kerala"] >>],
     b2 |-> [customers |->
                << [id |-> 1, name |-> "Ravi", phone |-> "9123456789"],
                   [id |-> 2, name |-> "Ravi", phone |-> "9123456789", email |-> "b@x.in"] >>]]

\* a slip: the restored row loses its name
RestoredCustomer_Anonymous(cust_data) ==
    [name       |-> None,
     phone      |-> cust_data.phone,
     email      |-> Get(cust_data, "email", None),
     address    |-> Get(cust_data, "address", None),
     gst_number |-> Get(cust_data, "gst_number", None),
     state      |-> IF Get(cust_data, "state", None) = None THEN "Telangana"
                    ELSE cust_data.state]

\* the Customer row restore_backup builds from one backup row; a column left
\* at None takes its default
RestoredCustomer(cust_data) ==
    [name       |-> cust_data.name,
     phone      |-> cust_data.phone,
     email      |-> Get(cust_data, "email", None),
     address    |-> Get(cust_data, "address", None),
     gst_number |-> Get(cust_data, "gst_number", None),
     state      |-> IF Get(cust_data, "state", None) = None THEN "Telangana"
                    ELSE cust_data.state]

\* BackupAgent.restore_backup(filename): every row is looked up in the stored
\* table (rows added earlier in the same run are not flushed), and the single
\* commit fails on the unique phone constraint
restore_backup(filename) ==
    /\ UNCHANGED <<invoices, invoice_items, payments, recurring, users,
                   request_counts, blocked_ips, now, today, checked, audit_logs, pending, tokens>>
    /\ IF filename \notin DOMAIN BackupDir
       THEN /\ result' = [op |-> "restore_backup", success |-> FALSE,
                          error |-> "Backup file not found", filename |-> filename]
            /\ UNCHANGED customers
       ELSE LET rows  == Get(BackupDir[filename], "customers", <<>>)
                fresh == SelectSeq(rows, LAMBDA r : CustomerByPhone(customers, r.phone) = 0)
                added == [i \in 1..Len(fresh) |-> RestoredCustomer(fresh[i])]
            IN  IF \E i, j \in 1..Len(added) : i # j /\ added[i].phone = added[j].phone
                THEN /\ result' = [op |-> "restore_backup", success |-> FALSE,
                                   error |-> "IntegrityError", filename |-> filename]
                     /\ UNCHANGED customers
                ELSE /\ customers' = customers \o added
                     /\ result' = [op |-> "restore_backup", success |-> TRUE,
                                   restored_customers |-> Len(added),
                                   filename |-> filename]


(***************************************************************************)
(* Security Agent (security_agent.py)                                      *)
(***************************************************************************)
\* the clock is read in half seconds, so that int() has something to cut off
UnitsPerSecond == 2

\* int(x) for a time x given in clock units: truncation towards zero
IntSeconds(x) ==
    IF x >= 0 THEN x \div UnitsPerSecond ELSE -((-x) \div UnitsPerSecond)

\* RATE_LIMITS with one request more on the default limit
RATE_LIMITS_OneMore ==
    [default |-> [requests |-> 101, window |-> 60],
     auth    |-> [requests |-> 5,   window |-> 60],
     search  |-> [requests |-> 30,  window |-> 60],
     export  |-> [requests |-> 10,  window |-> 60],
     email   |-> [requests |-> 20,  window |-> 60]]

\* SecurityAgent.RATE_LIMITS
RATE_LIMITS ==
    [default |-> [requests |-> 100, window |-> 60],
     auth    |-> [requests |-> 5,   window |-> 60],
     search  |-> [requests |-> 30,  window |-> 60],
     export  |-> [requests |-> 10,  window |-> 60],
     email   |-> [requests |-> 20,  window |-> 60]]

\* a limiter that applies the default rule whatever the limit type
RateLimitConfig_DefaultForAll(limit_type) == RATE_LIMITS["default"]

\* self.RATE_LIMITS.get(limit_type, self.RATE_LIMITS['default'])
RateLimitConfig(limit_type) ==
    IF limit_type \in DOMAIN RATE_LIMITS THEN RATE_LIMITS[limit_type]
    ELSE RATE_LIMITS["default"]

\* check_rate_limit that forgets a request half a second before its window ends
CleanOld_TooEarly(reqs, cutoff_time) ==
    SelectSeq(reqs, LAMBDA req_time : req_time > cutoff_time + 1)

\* [req_time for req_time in request_counts[identifier] if req_time > cutoff_time]
CleanOld(reqs, cutoff_time) ==
    SelectSeq(reqs, LAMBDA req_time : req_time > cutoff_time)

\* min(self.request_counts[identifier])
MinOf(reqs) == CHOOSE m \in { reqs[i] : i \in 1..Len(reqs) } :
                  \A i \in 1..Len(reqs) : m <= reqs[i]

\* check_rate_limit that records the time of a rejected request as well
check_rate_limit_CountRejected(identifier, limit_type) ==
    /\ UNCHANGED <<customers, invoices, invoice_items, payments, recurring,
                   users, blocked_ips, now, today, audit_logs, pending, tokens>>
    /\ IF identifier \in blocked_ips
       THEN /\ result' = [op |-> "check_rate_limit", limit_type |-> limit_type,
                          allowed |-> FALSE, reason |-> "IP blocked",
                          retry_after |-> 3600]
            /\ UNCHANGED request_counts
       ELSE LET config         == RateLimitConfig(limit_type)
                max_requests   == config.requests
                window_seconds == config.window * UnitsPerSecond
                cutoff_time    == now - window_seconds
                kept           == CleanOld(request_counts[identifier], cutoff_time)
                current_count  == Len(kept)
            IN  IF current_count >= max_requests
                THEN LET retry_after == IntSeconds(MinOf(kept) + window_seconds - now)
                     IN  /\ request_counts' =
                               [request_counts EXCEPT ![identifier] = Append(kept, now)]
                         /\ result' = [op |-> "check_rate_limit",
                                       limit_type |-> limit_type,
                                       allowed |-> FALSE,
                                       reason |-> "Rate limit exceeded",
                                       retry_after |-> Max(retry_after, 1),
                                       current_count |-> current_count,
                                       limit |-> max_requests]
                ELSE /\ request_counts' =
                          [request_counts EXCEPT ![identifier] = Append(kept, now)]
                     /\ result' = [op |-> "check_rate_limit",
                                   limit_type |-> limit_type,
                                   allowed |-> TRUE,
                                   current_count |-> current_count + 1,
                                   limit |-> max_requests,
                                   remaining |-> max_requests - current_count - 1,
                                   reset_at |-> IntSeconds(now + window_seconds)]

\* SecurityAgent.check_rate_limit(identifier, limit_type)
check_rate_limit(identifier, limit_type) ==
    /\ UNCHANGED <<customers, invoices, invoice_items, payments, recurring,
                   users, blocked_ips, now, today, audit_logs, pending, tokens>>
    /\ IF identifier \in blocked_ips
       THEN /\ result' = [op |-> "check_rate_limit", limit_type |-> limit_type,
                          allowed |-> FALSE, reason |-> "IP blocked",
                          retry_after |-> 3600]
            /\ UNCHANGED request_counts
       ELSE LET config         == RateLimitConfig(limit_type)
                max_requests   == config.requests
                window_seconds == config.window * UnitsPerSecond
                cutoff_time    == now - window_seconds
                kept           == CleanOld(request_counts[identifier], cutoff_time)
                current_count  == Len(kept)
            IN  IF current_count >= max_requests
                THEN LET retry_after == IntSeconds(MinOf(kept) + window_seconds - now)
                     IN  /\ request_counts' = [request_counts EXCEPT ![identifier] = kept]
                         /\ result' = [op |-> "check_rate_limit",
                                       limit_type |-> limit_type,
                                       allowed |-> FALSE,
                                       reason |-> "Rate limit exceeded",
                                       retry_after |-> Max(retry_after, 1),
                                       current_count |-> current_count,
                                       limit |-> max_requests]
                ELSE /\ request_counts' =
                          [request_counts EXCEPT ![identifier] = Append(kept, now)]
                     /\ result' = [op |-> "check_rate_limit",
                                   limit_type |-> limit_type,
                                   allowed |-> TRUE,
                                   current_count |-> current_count + 1,
                                   limit |-> max_requests,
                                   remaining |-> max_requests - current_count - 1,
                                   reset_at |-> IntSeconds(now + window_seconds)]

\* block_ip that keeps only blocks of a day or more
block_ip_DayOrMore(ip_address, duration_hours) ==
    /\ UNCHANGED <<customers, invoices, invoice_items, payments, recurring,
                   users, request_counts, now, today, checked, audit_logs, pending, tokens>>
    /\ blocked_ips' = IF duration_hours >= 24 THEN blocked_ips \cup {ip_address}
                      ELSE blocked_ips
    /\ result' = [op |-> "block_ip", success |-> TRUE, ip_address |-> ip_address,
                  duration_hours |-> duration_hours]

\* SecurityAgent.block_ip(ip_address, duration_hours)
block_ip(ip_address, duration_hours) ==
    /\ UNCHANGED <<customers, invoices, invoice_items, payments, recurring,
                   users, request_counts, now, today, checked, audit_logs, pending, tokens>>
    /\ blocked_ips' = blocked_ips \cup {ip_address}
    /\ result' = [op |-> "block_ip", success |-> TRUE, ip_address |-> ip_address,
                  duration_hours |-> duration_hours]

\* SecurityAgent.unblock_ip(ip_address)
unblock_ip(ip_address) ==
    /\ UNCHANGED <<customers, invoices, invoice_items, payments, recurring,
                   users, request_counts, now, today, checked, audit_logs, pending, tokens>>
    /\ blocked_ips' = blocked_ips \ {ip_address}
    /\ result' = [op |-> "unblock_ip", success |-> ip_address \in blocked_ips,
                  ip_address |-> ip_address]

\* the k-th instant at which the limiter's clock is read: 0 s, 59.5 s, 60 s,
\* 119.5 s, 120 s, ...
SecInstant(k) ==
    LET window == RATE_LIMITS["default"].window * UnitsPerSecond
    IN  IF k % 2 = 1 THEN window * (k \div 2) ELSE window * (k \div 2) - 1

\* time passes between two calls
TickSec ==
    /\ \E k \in 1..(MaxSecInstants - 1) :
          /\ now = SecInstant(k)
          /\ now' = SecInstant(k + 1)
    /\ result' = [op |-> "tick"]
    /\ UNCHANGED <<customers, invoices, invoice_items, payments, recurring,
                   users, request_counts, blocked_ips, today, checked, audit_logs, pending, tokens>>


(***************************************************************************)
(* Authentication Agent (auth_agent.py)                                    *)
(***************************************************************************)
SECRET_KEY == "gst-invoice-agent-secret-key-bunny-rangu-2026"

ACCESS_TOKEN_EXPIRE_MINUTES == 60 * 24

\* hashlib.sha256(password).hexdigest(), taken to be free of collisions
hash_password_sha256(password) == <<"sha256", password>>

\* bcrypt.hashpw(secret, salt): the salt is kept in the hash
bcrypt_hashpw(secret, salt) == <<"bcrypt", salt, secret>>

\* bcrypt.checkpw(secret, hashed): hash again with the salt of the stored hash
bcrypt_checkpw(secret, hashed) == bcrypt_hashpw(secret, hashed[2]) = hashed

\* AuthAgent.hash_password(password), salt being what bcrypt.gensalt() returned
hash_password(password, salt) == bcrypt_hashpw(hash_password_sha256(password), salt)

\* AuthAgent.verify_password(plain_password, hashed_password)
verify_password(plain_password, hashed_password) ==
    bcrypt_checkpw(hash_password_sha256(plain_password), hashed_password)

\* timegm(dt.utctimetuple()): whole seconds of a time given in clock units
Timegm(t) == t \div UnitsPerSecond

\* jwt.encode(claims, key): a datetime exp claim becomes whole seconds
jwt_encode(claims, key) ==
    [payload |-> [claims EXCEPT !.exp = Timegm(@)], signed_with |-> key]

\* jwt.decode without the check of the exp claim
jwt_decode_NoExpiry(token, key, t) ==
    IF token.signed_with # key THEN [JWTError |-> TRUE]
    ELSE [JWTError |-> FALSE, payload |-> token.payload]

\* jwt.decode(token, key) at time t: the payload, or JWTError for a bad
\* signature or an exp claim below the current whole second
jwt_decode(token, key, t) ==
    IF token.signed_with # key THEN [JWTError |-> TRUE]
    ELSE IF "exp" \in DOMAIN token.payload /\ token.payload.exp < Timegm(t)
    THEN [JWTError |-> TRUE]
    ELSE [JWTError |-> FALSE, payload |-> token.payload]

\* AuthAgent.create_access_token(data) at time t
create_access_token(data, t) ==
    LET expire == t + ACCESS_TOKEN_EXPIRE_MINUTES * 60 * UnitsPerSecond
    IN  jwt_encode([sub |-> data.sub, role |-> data.role, email |-> data.email,
                    exp |-> expire], SECRET_KEY)

\* the value AuthAgent.verify_token(token) returns at time t
VerifyReturn(token, t) ==
    LET decoded == jwt_decode(token, SECRET_KEY, t)
    IN  IF decoded.JWTError THEN NoneValue
        ELSE IF Get(decoded.payload, "sub", None) = None THEN NoneValue
        ELSE [username |-> decoded.payload.sub,
              role     |-> Get(decoded.payload, "role", "user")]

\* db.query(User).filter(User.username == username).first(); 0 when absent
UserByUsername(us, username) ==
    IF \E i \in 1..Len(us) : us[i].username = username
    THEN CHOOSE i \in 1..Len(us) : us[i].username = username
    ELSE 0

\* db.query(User).filter(User.email == email).first() finds nothing, always
UserByEmail_Never(us, email) == 0

\* db.query(User).filter(User.email == email).first(); 0 when absent
UserByEmail(us, email) ==
    IF \E i \in 1..Len(us) : us[i].email = email
    THEN CHOOSE i \in 1..Len(us) : us[i].email = email
    ELSE 0

\* the public fields of a user row that register and login return
UserInfo(us, i) ==
    [id |-> i, username |-> us[i].username, email |-> us[i].email,
     full_name |-> us[i].full_name, role |-> us[i].role]

\* the User row register_user inserts; is_active takes the column default
NewUser(username, email, hashed_password, full_name, role) ==
    [username |-> username, email |-> email,
     hashed_password |-> hashed_password, full_name |-> full_name,
     role |-> role, is_active |-> "true"]

\* AuthAgent.register_user(username, email, password, full_name, role)
register_user(username, email, password, full_name, role, salt) ==
    /\ UNCHANGED <<customers, invoices, invoice_items, payments, recurring,
                   request_counts, blocked_ips, now, today, checked, audit_logs, pending, tokens>>
    /\ IF UserByUsername(users, username) # 0
       THEN /\ UNCHANGED users
            /\ result' = [op |-> "register_user", username |-> username,
                          email |-> email, password |-> password,
                          ret |-> [success |-> FALSE,
                                   error |-> "Username already exists"]]
       ELSE IF UserByEmail(users, email) # 0
       THEN /\ UNCHANGED users
            /\ result' = [op |-> "register_user", username |-> username,
                          email |-> email, password |-> password,
                          ret |-> [success |-> FALSE,
                                   error |-> "Email already registered"]]
       ELSE /\ users' = Append(users, NewUser(username, email,
                                   hash_password(password, salt), full_name, role))
            /\ result' = [op |-> "register_user", username |-> username,
                          email |-> email, password |-> password,
                          ret |-> [success |-> TRUE,
                                   user |-> UserInfo(users', Len(users'))]]


\* login_user with a message of its own for an unknown username
LoginReturn_UserNotFound(us, username, password, t) ==
    LET i == UserByUsername(us, username)
    IN  IF i = 0
        THEN [success |-> FALSE, error |-> "User not found"]
        ELSE IF ~verify_password(password, us[i].hashed_password)
        THEN [success |-> FALSE, error |-> "Invalid username or password"]
        ELSE [success      |-> TRUE,
              access_token |-> create_access_token(
                                  [sub |-> us[i].username, role |-> us[i].role,
                                   email |-> us[i].email], t),
              token_type   |-> "bearer",
              user         |-> UserInfo(us, i)]

\* the value AuthAgent.login_user(username, password) returns at time t
LoginReturn(us, username, password, t) ==
    LET i == UserByUsername(us, username)
    IN  IF i = 0
        THEN [success |-> FALSE, error |-> "Invalid username or password"]
        ELSE IF ~verify_password(password, us[i].hashed_password)
        THEN [success |-> FALSE, error |-> "Invalid username or password"]
        ELSE IF us[i].is_active # "true"
        THEN [success |-> FALSE, error |-> "Account is deactivated"]
        ELSE [success      |-> TRUE,
              access_token |-> create_access_token(
                                  [sub |-> us[i].username, role |-> us[i].role,
                                   email |-> us[i].email], t),
              token_type   |-> "bearer",
              user         |-> UserInfo(us, i)]

\* AuthAgent.login_user(username, password); tokens remembers each token
\* handed out and when
login_user(username, password) ==
    /\ UNCHANGED <<customers, invoices, invoice_items, payments, recurring,
                   users, request_counts, blocked_ips, now, today, checked, audit_logs, pending>>
    /\ LET ret == LoginReturn(users, username, password, now)
       IN  /\ result' = [op |-> "login_user", username |-> username,
                         password |-> password, ret |-> ret]
           /\ IF ret.success
              THEN /\ Cardinality(tokens) < MaxTokens
                   /\ tokens' = tokens \cup
                         {[token |-> ret.access_token, issued_at |-> now]}
              ELSE UNCHANGED tokens

\* AuthAgent.verify_token(token)
verify_token(token) ==
    /\ UNCHANGED <<customers, invoices, invoice_items, payments, recurring,
                   users, request_counts, blocked_ips, now, today, checked, audit_logs, pending, tokens>>
    /\ result' = [op |-> "verify_token", token |-> token,
                  ret |-> VerifyReturn(token, now)]

\* the k-th instant at which the clock is read: 0 s, 0.5 s, then half a second
\* before the lifetime of a token issued at 0 ends, and on in half seconds
AuthInstant(k) ==
    LET lifetime == ACCESS_TOKEN_EXPIRE_MINUTES * 60 * UnitsPerSecond
    IN  IF k <= 2 THEN k - 1 ELSE lifetime - 4 + k

\* time passes between two calls
TickAuth ==
    /\ \E k \in 1..(MaxAuthInstants - 1) :
          /\ now = AuthInstant(k)
          /\ now' = AuthInstant(k + 1)
    /\ result' = [op |-> "tick"]
    /\ UNCHANGED <<customers, invoices, invoice_items, payments, recurring,
                   users, request_counts, blocked_ips, today, checked, audit_logs, pending, tokens>>

(***************************************************************************)
(* Initial state: empty tables, a fresh SecurityAgent                      *)
(***************************************************************************)
Identifiers == {"ip1"}

Init ==
    /\ customers = <<>>
    /\ invoices = <<>>
    /\ invoice_items = <<>>
    /\ payments = <<>>
    /\ recurring = <<>>
    /\ users = <<>>
    /\ request_counts = [id \in Identifiers |-> <<>>]
    /\ blocked_ips = {}
    /\ now = 0
    /\ today = <<2025, 1, 30>>
    /\ tokens = {}
    /\ pending = [p \in Callers |-> NoneValue]
    /\ audit_logs = <<>>
    /\ checked = EmptyBag
    /\ result = [op |-> "init"]

(***************************************************************************)
(* Inputs the invoice and payment operations are called with               *)
(***************************************************************************)
CustomerInputs ==
    { [name |-> "Asha", phone |-> "9876543210", email |-> "a@x.in"],
      [name |-> "Ravi", phone |-> "9876543210"],
      [name |-> "Ravi", phone |-> "9123456789", email |-> "b@x.in"],
      [name |-> "A",    phone |-> "9123456789"],
      [name |-> "Asha", phone |-> "12345"] }

ItemPen   == [name |-> "Pen",   price |-> 1050,   quantity |-> 1, gst_rate |-> 5]
ItemDesk  == [name |-> "Desk",  price |-> 100000, quantity |-> 3, gst_rate |-> 18]
ItemClip  == [name |-> "Clip",  price |-> 4,      quantity |-> 1, gst_rate |-> 0]
ItemFree  == [name |-> "Free",  price |-> 0,      quantity |-> 1, gst_rate |-> 12]
ItemBad   == [name |-> "Bad",   price |-> 1000,   quantity |-> 0, gst_rate |-> 28]

ItemListInputs ==
    { <<ItemPen, ItemDesk>>, <<ItemClip>>,
      <<ItemFree>>, <<ItemDesk, ItemBad>>, <<>> }

Years == {2025, 2026}

AmountInputs == {-100, 0, 60, 35510}

InvoiceNumberInputs ==
    { InvoiceNumber(y, n) : y \in Years, n \in 1000..(1000 + MaxInvoices - 1) }

PaymentMethodInputs == {"UPI"}

\* one customer who is accepted and one who is not
CustomerInputsDB ==
    { c \in CustomerInputs : c.name # "Ravi" /\ c.phone # "12345" }

NextDB ==
    \/ \E c \in CustomerInputsDB, its \in ItemListInputs, y \in Years :
            create_invoice(c, its, y)
    \/ \E n \in InvoiceNumberInputs, a \in AmountInputs, m \in PaymentMethodInputs :
            add_payment(n, a, m)

SpecDB == Init /\ [][NextDB]_vars

(***************************************************************************)
(* Payment status and the sum of the payments                              *)
(***************************************************************************)
PaymentsOf(i) == SelectSeq(payments, LAMBDA p : p.invoice_id = i)

\* C1 as stated: for every invoice with grand total G and S the sum of its
\* Payment rows, the status is Pending iff S = 0, Partial iff 0 < S < G and
\* Paid iff S >= G.
C1_StatusIffSumAsStated ==
    \A i \in 1..Len(invoices) :
        LET S == get_total_paid(payments, i)
            G == invoices[i].grand_total
        IN  Len(PaymentsOf(i)) > 0 =>
              /\ invoices[i].payment_status = "Pending" <=> S = 0
              /\ invoices[i].payment_status = "Partial" <=> (0 < S /\ S < G)
              /\ invoices[i].payment_status = "Paid"    <=> S >= G

\* C1 amended: for every invoice that has a payment recorded or a positive
\* grand total G, the status is Paid iff S >= G, Partial iff 0 < S < G, and
\* Pending iff S <= 0 and S < G (a negative running total is Pending too).
C1_StatusIffSum ==
    \A i \in 1..Len(invoices) :
        LET S == get_total_paid(payments, i)
            G == invoices[i].grand_total
        IN  (Len(PaymentsOf(i)) > 0 \/ G > 0) =>
              /\ invoices[i].payment_status = "Pending" <=> (S <= 0 /\ S < G)
              /\ invoices[i].payment_status = "Partial" <=> (0 < S /\ S < G)
              /\ invoices[i].payment_status = "Paid"    <=> S >= G

\* an invoice whose payments sum to a negative amount, after two payments
C1_Witness ==
    \E i \in 1..Len(invoices) :
        /\ Len(PaymentsOf(i)) >= 2
        /\ get_total_paid(payments, i) < 0
        /\ invoices[i].payment_status = "Pending"

(***************************************************************************)
(* Invoice numbering                                                       *)
(***************************************************************************)
\* C2: from an empty store, the Nth successfully created invoice has a number
\* whose trailing integer is 1000 + (N - 1), the number returned to the caller
\* is the stored one, and no two stored invoices share an invoice number.
C2_SequentialNumbers ==
    /\ \A n \in 1..Len(invoices) :
          TrailingInteger(invoices[n].invoice_number) = 1000 + (n - 1)
    /\ \A i, j \in 1..Len(invoices) :
          i # j => invoices[i].invoice_number # invoices[j].invoice_number
    /\ (result.op = "create_invoice" /\ "success" \in DOMAIN result /\ result.success) =>
          /\ result.invoice_id = Len(invoices)
          /\ result.invoice_number = invoices[Len(invoices)].invoice_number

\* two invoices created in different years, the second one just returned
C2_Witness ==
    /\ Len(invoices) >= 2
    /\ invoices[1].invoice_number[2] # invoices[2].invoice_number[2]
    /\ result.op = "create_invoice" /\ "success" \in DOMAIN result /\ result.success

(***************************************************************************)
(* Invoice totals and the owned items                                      *)
(***************************************************************************)
ItemsOf(i) == SelectSeq(invoice_items, LAMBDA it : it.invoice_id = i)

\* C4: for every stored invoice, total_items is the number of its items,
\* total_quantity the sum of their quantities, and subtotal, total_cgst,
\* total_sgst, total_gst and grand_total the sums of the items' subtotal,
\* cgst_amount, sgst_amount, total_gst and total_amount.
C4_TotalsEqualItemSums ==
    \A i \in 1..Len(invoices) :
        LET its == ItemsOf(i)
            n   == Len(its)
        IN  /\ invoices[i].total_items = n
            /\ invoices[i].total_quantity = SumSeq([k \in 1..n |-> its[k].quantity])
            /\ invoices[i].subtotal = SumSeq([k \in 1..n |-> its[k].subtotal])
            /\ invoices[i].total_cgst = SumSeq([k \in 1..n |-> its[k].cgst_amount])
            /\ invoices[i].total_sgst = SumSeq([k \in 1..n |-> its[k].sgst_amount])
            /\ invoices[i].total_gst = SumSeq([k \in 1..n |-> its[k].total_gst])
            /\ invoices[i].grand_total = SumSeq([k \in 1..n |-> its[k].total_amount])

\* a two-item invoice, stored second, with a payment recorded on it
C4_Witness ==
    \E i \in 1..Len(invoices) :
        /\ i >= 2
        /\ Len(ItemsOf(i)) = 2
        /\ Len(PaymentsOf(i)) >= 1

(***************************************************************************)
(* Customers are keyed by phone: invoices, recurring templates, restore    *)
(***************************************************************************)
RecurringCustomerInputs ==
    { [name |-> "Ravi", phone |-> "9876543210", email |-> "b@x.in"],
      [name |-> "Meera", phone |-> "8000000001"],
      [phone |-> "9123456789"] }

BackupFileInputs == {"b1", "b2", "b9"}

NextCust ==
    \/ \E c \in CustomerInputs, its \in {<<ItemClip>>, <<>>} :
            create_invoice(c, its, 2025)
    \/ \E c \in RecurringCustomerInputs, f \in {"monthly", "hourly"} :
            create_recurring_invoice("Rent", c, <<ItemClip>>, f,
                                     <<2025, 1, 30>>, NoDate, FALSE, "")
    \/ \E f \in BackupFileInputs : restore_backup(f)

SpecCust == Init /\ [][NextCust]_vars

UniquePhones(custs) ==
    \A i, j \in 1..Len(custs) : custs[i].phone = custs[j].phone => i = j

\* what one step may do to the customers table
C3_Step ==
    /\ UniquePhones(customers')
    /\ Len(customers') >= Len(customers)
    /\ \A i \in 1..Len(customers) : customers'[i].phone = customers[i].phone
    /\ ( /\ result'.op \in {"create_invoice", "create_recurring_invoice"}
         /\ "phone" \in DOMAIN result'
         /\ CustomerByPhone(customers, result'.phone) # 0 )
       => Len(customers') = Len(customers)
    /\ result'.op = "restore_backup" =>
         \A i \in (Len(customers) + 1)..Len(customers') :
             CustomerByPhone(customers, customers'[i].phone) = 0
    /\ ( /\ result'.op = "create_invoice"
         /\ "customer" \in DOMAIN result'
         /\ CustomerByPhone(customers, result'.phone) # 0 )
       => LET k == CustomerByPhone(customers, result'.phone)
          IN  /\ customers'[k].name = result'.customer.name
              /\ customers'[k].email =
                    Get(result'.customer, "email", customers[k].email)

\* C3: no two Customer rows ever share a phone; create_invoice,
\* create_recurring_invoice and restore_backup, given a phone that is already
\* stored, never insert a second customer, and create_invoice updates the
\* existing row instead.
C3_UniquePhone == []UniquePhones(customers) /\ [][C3_Step]_vars

\* a stored customer was renamed by create_invoice, a template was created for
\* the same phone and a backup holding that phone was restored
C3_Witness ==
    /\ Len(customers) >= 2
    /\ result.op = "restore_backup" /\ result.success
    /\ result.filename = "b1" /\ result.restored_customers = 1
    /\ Len(recurring) > 0
    /\ \E k \in 1..Len(customers) :
          /\ customers[k].phone = "9876543210"
          /\ customers[k].name = "Ravi"
          /\ customers[k].email = "a@x.in"
          /\ recurring[1].customer_id = k

(***************************************************************************)
(* Rate limiting and blocking                                              *)
(***************************************************************************)
LimitTypeInputs == {"default", "auth", "bulk"}

DurationInputs == {1, 24}

NextSec ==
    \/ \E id \in Identifiers, t \in LimitTypeInputs :
            check_rate_limit(id, t) /\ UNCHANGED checked
    \/ \E id \in Identifiers, d \in DurationInputs : block_ip(id, d)
    \/ \E id \in Identifiers : unblock_ip(id)
    \/ TickSec

SpecSec == Init /\ [][NextSec]_vars

\* the requests of an identifier accepted inside the window that ends at time t
AcceptedInWindow(id, t) ==
    SelectSeq(request_counts[id], LAMBDA req_time :
        t - RATE_LIMITS["default"].window * UnitsPerSecond < req_time)

C5_Step ==
    \A id \in Identifiers :
        ( /\ result'.op = "check_rate_limit"
          /\ result'.limit_type = "default"
          /\ id \notin blocked_ips )
        => LET window == RATE_LIMITS["default"].window * UnitsPerSecond
               reqs   == request_counts[id]
           IN  /\ Len(AcceptedInWindow(id, now)) >= 100
                    => /\ result'.allowed = FALSE
                       /\ result'.retry_after > 0
                       /\ result'.retry_after * UnitsPerSecond
                             <= MinOf(AcceptedInWindow(id, now)) + window - now
                          \/ result'.retry_after = 1
               /\ (Len(reqs) >= 100 /\ now >= MinOf(reqs) + window)
                    => /\ result'.allowed = TRUE
                       /\ request_counts'[id][Len(request_counts'[id])] = now

\* C5: for limit type default and an identifier that is not blocked, once 100
\* requests have been accepted within one 60-second window the next request
\* inside that window is rejected with retry_after > 0, and a request made
\* after the window has fully elapsed is accepted again.
C5_DefaultLimit == [][C5_Step]_vars

\* the 100 requests of one window are in, and the next one, half a second
\* before the window ends, has been turned away
C5_Witness ==
    /\ result.op = "check_rate_limit" /\ result.limit_type = "default"
    /\ result.allowed = FALSE /\ result.reason = "Rate limit exceeded"
    /\ result.retry_after = 1
    /\ Len(request_counts["ip1"]) = 100
    /\ now = SecInstant(2)
    /\ "ip1" \notin blocked_ips

C6_Step ==
    \A ip \in Identifiers :
        /\ (result'.op = "block_ip" /\ result'.ip_address = ip) => ip \in blocked_ips'
        /\ (ip \in blocked_ips /\ ~(result'.op = "unblock_ip" /\ result'.ip_address = ip))
              => ip \in blocked_ips'
        /\ (ip \in blocked_ips /\ result'.op = "check_rate_limit")
              => /\ result'.allowed = FALSE
                 /\ result'.retry_after = 3600
                 /\ UNCHANGED request_counts

UsernameInputs == {"asha", "ravi"}

EmailInputs == {"a@x.in", "b@x.in"}

PasswordInputs == {"pw1", "pw2"}

Salts == {"salt1"}

\* a token signed with another key, and one with no subject
ForgedToken ==
    [payload |-> [sub |-> "asha", role |-> "admin", email |-> "a@x.in"],
     signed_with |-> "guess"]

NoSubjectToken ==
    [payload |-> [role |-> "user"], signed_with |-> SECRET_KEY]

NextAuth ==
    \/ \E u \in UsernameInputs, em \in EmailInputs, salt \in Salts :
            register_user(u, em, "pw1", "", "user", salt)
    \/ \E u \in UsernameInputs \cup {"nobody"}, p \in PasswordInputs :
            login_user(u, p)
    \/ \E t \in { tk.token : tk \in tokens } \cup {ForgedToken, NoSubjectToken} :
            verify_token(t)
    \/ TickAuth

SpecAuth == Init /\ [][NextAuth]_vars

Lifetime == ACCESS_TOKEN_EXPIRE_MINUTES * 60 * UnitsPerSecond

\* registration makes login succeed, and login hands out a token for the user
C7_RegisterLogin ==
    /\ \A i \in 1..Len(users) : users'[i] = users[i]
    /\ (result'.op = "register_user" /\ result'.ret.success)
          => LET ret == LoginReturn(users', result'.username, result'.password, now')
             IN  /\ ret.success
                 /\ ret.access_token.payload.sub = result'.username
    /\ (result'.op = "login_user" /\ result'.ret.success)
          => /\ [token |-> result'.ret.access_token, issued_at |-> now] \in tokens'
             /\ result'.ret.access_token.payload.sub = result'.username

\* a token verifies to its user before the end of its lifetime
C7_ValidBefore ==
    \A tk \in tokens :
        (result'.op = "verify_token" /\ result'.token = tk.token
            /\ now < tk.issued_at + Lifetime)
        => /\ result'.ret # NoneValue
           /\ result'.ret.username = tk.token.payload.sub

\* C7 as stated: after register_user(u, e, p) succeeds, login_user(u, p)
\* succeeds and returns a token t such that verify_token(t) returns username u
\* at every time before the token's expiry (issue time plus 1440 minutes) and
\* returns no value at every time after the expiry.
C7_TokenLifetimeAsStated ==
    [][ /\ C7_RegisterLogin
        /\ C7_ValidBefore
        /\ \A tk \in tokens :
              (result'.op = "verify_token" /\ result'.token = tk.token
                  /\ now > tk.issued_at + Lifetime)
              => result'.ret = NoneValue ]_vars

\* C7 amended: after register_user(u, e, p) succeeds, login_user(u, p) succeeds
\* and returns a token t such that verify_token(t) returns username u at every
\* time before the token's expiry (issue time plus 1440 minutes) and returns no
\* value at every time one second or more after the expiry.
C7_TokenLifetime ==
    [][ /\ C7_RegisterLogin
        /\ C7_ValidBefore
        /\ \A tk \in tokens :
              (result'.op = "verify_token" /\ result'.token = tk.token
                  /\ now >= tk.issued_at + Lifetime + UnitsPerSecond)
              => result'.ret = NoneValue ]_vars

\* a token issued at 0 s has been refused one second after its lifetime
C7_Witness ==
    /\ result.op = "verify_token"
    /\ result.ret = NoneValue
    /\ \E tk \in tokens :
          /\ tk.token = result.token
          /\ tk.issued_at = 0
          /\ now = tk.issued_at + Lifetime + UnitsPerSecond
          /\ UserByUsername(users, tk.token.payload.sub) # 0

UniqueUsers(us) ==
    \A i, j \in 1..Len(us) :
        (us[i].username = us[j].username \/ us[i].email = us[j].email) => i = j

C8_Step ==
    /\ UniqueUsers(users')
    /\ ( /\ result'.op = "register_user"
         /\ \E i \in 1..Len(users) :
               users[i].username = result'.username \/ users[i].email = result'.email )
       => /\ result'.ret.success = FALSE
          /\ users' = users

\* C8: after any sequence of register_user calls no two User rows share a
\* username and no two share an email; a register_user call whose username or
\* whose email is already stored returns success=False and leaves the user
\* store unchanged.
C8_UniqueUsers == []UniqueUsers(users) /\ [][C8_Step]_vars

\* a registration with a new username and a stored email has been refused
C8_Witness ==
    /\ Len(users) = 1
    /\ result.op = "register_user"
    /\ result.ret.success = FALSE
    /\ result.ret.error = "Email already registered"
    /\ UserByUsername(users, result.username) = 0
    /\ UserByEmail(users, result.email) # 0

\* C9: login_user returns the same failure result for a username that is not
\* registered as for a registered username given a wrong password, so the two
\* cases cannot be told apart from the result.
C9_SameFailure ==
    /\ \A u, v \in UsernameInputs \cup {"nobody"}, p, q \in PasswordInputs :
          ( /\ UserByUsername(users, u) = 0
            /\ UserByUsername(users, v) # 0
            /\ ~verify_password(q, users[UserByUsername(users, v)].hashed_password) )
          => LoginReturn(users, u, p, now) = LoginReturn(users, v, q, now)
    /\ (result.op = "login_user" /\ ~result.ret.success)
          => result.ret = [success |-> FALSE, error |-> "Invalid username or password"]

\* a registered user has just been refused on a wrong password while another
\* username is not registered
C9_Witness ==
    /\ result.op = "login_user"
    /\ ~result.ret.success
    /\ UserByUsername(users, result.username) # 0
    /\ \E u \in UsernameInputs : UserByUsername(users, u) = 0

(***************************************************************************)
(* Recurring templates                                                     *)
(***************************************************************************)
FrequencyInputs ==
    {"daily", "weekly", "biweekly", "monthly", "quarterly", "yearly", "hourly"}

StartDateInputs == { <<2024, 2, 1>> }

EndDateInputs == { NoDate, <<2024, 3, 2>> }

StatusInputs == {"paused"}

RecurringCustomer == [name |-> "Meera", phone |-> "8000000001"]

NextRec ==
    \/ \E f \in FrequencyInputs, sd \in StartDateInputs, ed \in EndDateInputs :
            create_recurring_invoice("Rent", RecurringCustomer, <<ItemPen>>, f,
                                     sd, ed, TRUE, "monthly rent")
    \/ \E id \in 1..(MaxTemplates + 1) : generate_invoice_from_template(id)
    \/ \E id \in 1..(MaxTemplates + 1), st \in StatusInputs : update_status(id, st)

SpecRec == Init /\ [][NextRec]_vars

IsCalendarDate(d) ==
    /\ d[2] \in 1..12
    /\ d[3] \in 1..DaysInMonth(d[1], d[2])

C10_Step ==
    (result'.op = "generate_invoice_from_template" /\ result'.success)
    => LET id     == result'.template_id
           before == recurring[id]
           after  == recurring'[id]
           days   == [daily |-> 1, weekly |-> 7, biweekly |-> 14,
                      monthly |-> 30, quarterly |-> 90, yearly |-> 365]
       IN  /\ id \in 1..Len(recurring)
           /\ result'.invoice_data = json_loads(before.invoice_template)
           /\ result'.invoice_data.customer = RecurringCustomer
           /\ after.invoice_template = before.invoice_template
           /\ IsCalendarDate(after.next_invoice_date)
           /\ strptime(after.next_invoice_date)
                 = strptime(before.next_invoice_date) + days[before.frequency]
           /\ after.invoices_generated = before.invoices_generated + 1
           /\ after.status =
                 IF before.end_date # NoDate
                    /\ strptime(after.next_invoice_date) > strptime(before.end_date)
                 THEN "completed" ELSE before.status
           /\ \A j \in 1..Len(recurring) : j # id => recurring'[j] = recurring[j]

\* C10: generate_invoice_from_template on an existing template returns the
\* stored snapshot, moves next_invoice_date forward by exactly the frequency's
\* interval in days (daily 1, weekly 7, biweekly 14, monthly 30, quarterly 90,
\* yearly 365), increases invoices_generated by exactly 1, and sets status to
\* completed if the template has an end_date and the new next_invoice_date is
\* later than it (otherwise it leaves status as it was).
C10_GenerateAdvances == [][C10_Step]_vars

\* a monthly template that ends on 2 March 2024 was generated twice:
\* the first run moved it to the end date itself, the second past it
C10_Witness ==
    /\ result.op = "generate_invoice_from_template" /\ result.success
    /\ Len(recurring) >= 1
    /\ recurring[1].frequency = "monthly"
    /\ recurring[1].end_date = <<2024, 3, 2>>
    /\ recurring[1].next_invoice_date = <<2024, 4, 1>>
    /\ recurring[1].invoices_generated = 2
    /\ recurring[1].status = "completed"

(***************************************************************************)
(* Due templates and the template life cycle                               *)
(***************************************************************************)
DueStartDateInputs == { <<2025, 1, 30>>, <<2025, 4, 1>> }

DueEndDateInputs == { NoDate, <<2025, 3, 1>> }

DueStatusInputs == {"active", "paused", "archived"}

NextDue ==
    \/ \E f \in {"monthly", "hourly"}, sd \in DueStartDateInputs, ed \in DueEndDateInputs :
            create_recurring_invoice("Rent", RecurringCustomer, <<ItemPen>>, f,
                                     sd, ed, FALSE, "")
    \/ \E id \in 1..MaxTemplates : generate_invoice_from_template(id)
    \/ \E id \in 1..(MaxTemplates + 1), st \in DueStatusInputs : update_status(id, st)
    \/ get_due_invoices
    \/ TickDay

SpecDue == Init /\ [][NextDue]_vars

\* end_date is a date earlier than the day, by the calendar
EndsBefore(rec, day) ==
    rec.end_date # NoDate /\ strptime(rec.end_date) < strptime(day)

\* the templates get_due_invoices has to return, by the calendar
DueIds ==
    { i \in 1..Len(recurring) :
        /\ recurring[i].status = "active"
        /\ strptime(recurring[i].next_invoice_date) <= strptime(today)
        /\ ~EndsBefore(recurring[i], today) }

C11_Returned ==
    result'.op = "get_due_invoices"
    => /\ { result'.ret[k].id : k \in 1..Len(result'.ret) } = DueIds
       /\ \A k, l \in 1..Len(result'.ret) :
             result'.ret[k].id = result'.ret[l].id => k = l
       /\ \A k \in 1..Len(result'.ret) :
             result'.ret[k].next_invoice_date
                = recurring[result'.ret[k].id].next_invoice_date

\* C11 as stated: get_due_invoices returns exactly the templates that are
\* active, have next_invoice_date <= today and whose end_date is not earlier
\* than today; and after the call every active template whose end_date is
\* earlier than today has been set to completed.
C11_DueAsStated ==
    [][ /\ C11_Returned
        /\ result'.op = "get_due_invoices"
           => \A i \in 1..Len(recurring) :
                 (recurring[i].status = "active" /\ EndsBefore(recurring[i], today))
                 => recurring'[i].status = "completed" ]_vars

\* C11 amended: get_due_invoices returns exactly the templates that are active,
\* have next_invoice_date <= today and whose end_date is not earlier than
\* today; and after the call every active template that has next_invoice_date
\* <= today and whose end_date is earlier than today has been set to completed.
C11_Due ==
    [][ /\ C11_Returned
        /\ result'.op = "get_due_invoices"
           => \A i \in 1..Len(recurring) :
                 ( /\ recurring[i].status = "active"
                   /\ strptime(recurring[i].next_invoice_date) <= strptime(today)
                   /\ EndsBefore(recurring[i], today) )
                 => recurring'[i].status = "completed" ]_vars

\* the day after its end date a template that never generated anything was
\* found due, left out of the result and completed
C11_Witness ==
    /\ result.op = "get_due_invoices"
    /\ result.ret = <<>>
    /\ Len(recurring) >= 1
    /\ recurring[1].status = "completed"
    /\ recurring[1].invoices_generated = 0
    /\ recurring[1].end_date # NoDate
    /\ today = DayInstant(3)

\* C12: in every reachable state the status of every recurring template is one
\* of active, paused, cancelled, completed, whatever sequence of
\* create_recurring_invoice, get_due_invoices, generate_invoice_from_template
\* and update_status calls was made.
C12_StatusInFour ==
    \A i \in 1..Len(recurring) :
        recurring[i].status \in {"active", "paused", "cancelled", "completed"}

(***************************************************************************)
(* Invoice Orchestrator, persisted: construction and the read operations   *)
(***************************************************************************)
\* GSTCalculator.__init__(self) called with these keyword arguments: the
\* constructor takes none, so any keyword argument is a TypeError
GSTCalculator_init(kwargs) ==
    IF kwargs = {} THEN "constructed" ELSE "TypeError"

\* InvoiceAgentDB.__init__: builds the validator and then
\* GSTCalculator(base_price=0, gst_rate=0)
InvoiceAgentDB_init ==
    /\ UNCHANGED <<customers, invoices, invoice_items, payments, recurring,
                   users, request_counts, blocked_ips, now, today, checked, audit_logs, pending, tokens>>
    /\ LET made == GSTCalculator_init({"base_price", "gst_rate"})
       IN  result' = IF made = "constructed"
                     THEN [op |-> "InvoiceAgentDB"]
                     ELSE [op |-> "InvoiceAgentDB", raised |-> made]

\* InvoiceAgentDB._invoice_model_to_dict(invoice_model), the stored fields
invoice_model_to_dict(i) ==
    [id             |-> i,
     invoice_number |-> invoices[i].invoice_number,
     payment_status |-> invoices[i].payment_status,
     customer       |-> customers[invoices[i].customer_id].name,
     grand_total    |-> invoices[i].grand_total]

\* order_by(created_at.desc()) over rows inserted one after another
NewestFirst(s) == [k \in 1..Len(s) |-> s[Len(s) + 1 - k]]

\* InvoiceAgentDB.get_invoice(invoice_number): the dict, or None
get_invoice(invoice_number) ==
    /\ UNCHANGED <<customers, invoices, invoice_items, payments, recurring,
                   users, request_counts, blocked_ips, now, today, checked, audit_logs, pending, tokens>>
    /\ LET i == get_invoice_by_number(invoices, invoice_number)
       IN  result' = [op |-> "get_invoice",
                      ret |-> IF i # 0 THEN <<invoice_model_to_dict(i)>> ELSE <<>>]

\* InvoiceAgentDB.get_all_invoices()
get_all_invoices ==
    /\ UNCHANGED <<customers, invoices, invoice_items, payments, recurring,
                   users, request_counts, blocked_ips, now, today, checked, audit_logs, pending, tokens>>
    /\ result' = [op |-> "get_all_invoices",
                  ret |-> NewestFirst([i \in 1..Len(invoices) |-> invoice_model_to_dict(i)])]

\* the names DatabaseOperations defines
DatabaseOperationsMethods ==
    { "create_or_get_customer", "create_invoice", "get_invoice_by_number",
      "get_all_invoices", "get_customer_invoices", "get_total_invoice_count",
      "get_next_invoice_number", "_invoice_to_dict" }

\* InvoiceAgentDB.get_customer_invoices(customer_name): looks up
\* self.db_ops.get_invoices_by_customer, a name DatabaseOperations lacks
get_customer_invoices(customer_name) ==
    /\ UNCHANGED <<customers, invoices, invoice_items, payments, recurring,
                   users, request_counts, blocked_ips, now, today, checked, audit_logs, pending, tokens>>
    /\ result' =
         IF "get_invoices_by_customer" \in DatabaseOperationsMethods
         THEN [op |-> "get_customer_invoices",
               ret |-> NewestFirst(SelectSeq([i \in 1..Len(invoices) |-> invoice_model_to_dict(i)],
                                             LAMBDA d : d.customer = customer_name))]
         ELSE [op |-> "get_customer_invoices", raised |-> "AttributeError"]

\* InvoiceAgentDB.get_payment_history(invoice_number)
get_payment_history(invoice_number) ==
    /\ UNCHANGED <<customers, invoices, invoice_items, payments, recurring,
                   users, request_counts, blocked_ips, now, today, checked, audit_logs, pending, tokens>>
    /\ LET i == get_invoice_by_number(invoices, invoice_number)
       IN  result' = [op |-> "get_payment_history",
                      ret |-> IF i = 0 THEN <<>>
                              ELSE NewestFirst(SelectSeq(payments, LAMBDA p : p.invoice_id = i))]

OrchCustomerInputs ==
    { c \in CustomerInputs : c.name = "Asha" }

OrchItemListInputs == { <<ItemPen, ItemDesk>>, <<ItemFree>>, <<>> }

OrchInvoiceNumberInputs == { InvoiceNumber(2025, 1000), InvoiceNumber(2025, 1009) }

OrchAmountInputs == {-100, 60, 35510}

NextOrch ==
    \/ InvoiceAgentDB_init
    \/ \E c \in OrchCustomerInputs, its \in OrchItemListInputs :
            create_invoice(c, its, 2025)
    \/ \E n \in OrchInvoiceNumberInputs : get_invoice(n)
    \/ get_all_invoices
    \/ \E c \in OrchCustomerInputs : get_customer_invoices(c.name)
    \/ \E n \in OrchInvoiceNumberInputs, a \in OrchAmountInputs, m \in PaymentMethodInputs :
            add_payment(n, a, m)
    \/ \E n \in OrchInvoiceNumberInputs : get_payment_history(n)

SpecOrch == Init /\ [][NextOrch]_vars

\* C13: every public operation of the persisted orchestrator (constructing it,
\* create_invoice, get_invoice, get_all_invoices, get_customer_invoices,
\* add_payment, get_payment_history) ends by returning a value for every input,
\* valid or invalid: a failure is reported as a success=False result with an
\* error string, and no call ends by raising an exception.
C13_AlwaysReturns ==
    /\ "raised" \notin DOMAIN result
    /\ ("success" \in DOMAIN result /\ ~result.success) => "error" \in DOMAIN result

\* the invoice number of the last call matched no invoice stored before it
NoStoredInvoice(invs, number) ==
    \A i \in 1..Len(invs) : invs[i].invoice_number # number

C14_Step ==
    (result'.op = "add_payment" /\ NoStoredInvoice(invoices, result'.invoice_number))
    => /\ result'.success = FALSE
       /\ "error" \in DOMAIN result'
       /\ payments' = payments
       /\ invoices' = invoices

\* C14: add_payment on the persisted orchestrator with an invoice number that
\* matches no stored invoice returns success=False with an error, inserts no
\* Payment row and changes no invoice.
C14_UnknownInvoice == [][C14_Step]_vars

\* a payment against an unknown number was refused while an invoice is stored
C14_Witness ==
    /\ result.op = "add_payment"
    /\ ~result.success
    /\ Len(invoices) >= 1
    /\ NoStoredInvoice(invoices, result.invoice_number)
    /\ payments = <<>>

(***************************************************************************)
(* HTTP API: POST /api/invoice/{invoice_number}/payment (routes.py)        *)
(***************************************************************************)
\* the status record_payment answers with when add_payment fails
RecordPaymentFailureStatus == 400

\* record_payment(invoice_number, amount, payment_method): calls
\* agent.add_payment and raises HTTPException when the result is a failure
record_payment(invoice_number, amount, payment_method) ==
    /\ add_payment_effect(invoice_number, amount, payment_method)
    /\ UNCHANGED audit_logs
    /\ LET ret == add_payment_return(invoice_number, amount, payment_method)
       IN  result' =
             IF ~ret.success
             THEN [op |-> "record_payment", invoice_number |-> invoice_number,
                   status_code |-> RecordPaymentFailureStatus,
                   detail |-> ret.error]
             ELSE [op |-> "record_payment", invoice_number |-> invoice_number,
                   status_code |-> 200, body |-> ret]

NextRoute ==
    \/ \E c \in CustomerInputsDB, its \in ItemListInputs, y \in Years :
            create_invoice(c, its, y)
    \/ \E n \in InvoiceNumberInputs, a \in AmountInputs, m \in PaymentMethodInputs :
            record_payment(n, a, m)

SpecRoute == Init /\ [][NextRoute]_vars

\* C15: a request to record a payment (POST
\* /api/invoice/{invoice_number}/payment) for an invoice number that does not
\* exist is answered with HTTP status 404.
C15_NotFoundIs404 ==
    [][ (result'.op = "record_payment"
            /\ NoStoredInvoice(invoices, result'.invoice_number))
        => result'.status_code = 404 ]_vars

(***************************************************************************)
(* Search Agent (search_agent.py). A text is the sequence of its           *)
(* characters, a date string the triple <<year, month, day>>, an amount a  *)
(* number of paise, a list used only for membership a set.                 *)
(***************************************************************************)
LowerCase ==
    [A |-> "a", B |-> "b", C |-> "c", D |-> "d", E |-> "e", F |-> "f", G |-> "g",
     H |-> "h", I |-> "i", J |-> "j", K |-> "k", L |-> "l", M |-> "m", N |-> "n",
     O |-> "o", P |-> "p", Q |-> "q", R |-> "r", S |-> "s", T |-> "t", U |-> "u",
     V |-> "v", W |-> "w", X |-> "x", Y |-> "y", Z |-> "z"]

\* str.lower()
str_lower(s) ==
    [i \in 1..Len(s) |-> IF s[i] \in DOMAIN LowerCase THEN LowerCase[s[i]] ELSE s[i]]

\* str.upper()
str_upper(s) ==
    [i \in 1..Len(s) |->
        IF \E u \in DOMAIN LowerCase : LowerCase[u] = s[i]
        THEN CHOOSE u \in DOMAIN LowerCase : LowerCase[u] = s[i]
        ELSE s[i]]

RECURSIVE str_lstrip(_)
str_lstrip(s) ==
    IF s # <<>> /\ Head(s) = " " THEN str_lstrip(Tail(s)) ELSE s

RECURSIVE str_rstrip(_)
str_rstrip(s) ==
    IF s # <<>> /\ s[Len(s)] = " " THEN str_rstrip(SubSeq(s, 1, Len(s) - 1)) ELSE s

\* str.strip()
str_strip(s) == str_rstrip(str_lstrip(s))

\* q in s, for two texts
str_in(q, s) ==
    \E i \in 0..(Len(s) - Len(q)) : SubSeq(s, i + 1, i + Len(q)) = q

\* date.weekday(): Monday is 0
weekday(day) == (strptime(day) + 6) % 7

\* the bounds <<start_date, end_date>> a preset stands for on the given day
PresetBounds(preset, day) ==
    IF preset = "today" THEN <<day, day>>
    ELSE IF preset = "this_week"
         THEN <<strftime(strptime(day) - weekday(day)), day>>
    ELSE IF preset = "this_month" THEN <<<<day[1], day[2], 1>>, day>>
    ELSE IF preset = "this_quarter"
         THEN <<<<day[1], ((day[2] - 1) \div 3) * 3 + 1, 1>>, day>>
    ELSE IF preset = "this_year" THEN <<<<day[1], 1, 1>>, day>>
    ELSE <<strftime(strptime(day) - 30), day>>

Presets ==
    {"today", "this_week", "this_month", "this_quarter", "this_year", "last_30_days"}

\* SearchAgent.filter_by_date_range(invoices, start_date, end_date, preset)
filter_by_date_range(invs, start_date, end_date, preset, day) ==
    IF invs = <<>> THEN <<>>
    ELSE LET bounds == IF preset \in Presets THEN PresetBounds(preset, day)
                       ELSE <<start_date, end_date>>
         IN  IF bounds[1] # NoDate \/ bounds[2] # NoDate
             THEN SelectSeq(invs, LAMBDA inv :
                    /\ ~(bounds[1] # NoDate /\ StrLess(inv.date, bounds[1]))
                    /\ ~(bounds[2] # NoDate /\ StrLess(bounds[2], inv.date)))
             ELSE invs

\* a slip in the lower bound: an invoice of exactly min_amount is dropped
filter_by_amount_range_Exclusive(invs, min_amount, max_amount) ==
    IF invs = <<>> THEN <<>>
    ELSE SelectSeq(invs, LAMBDA inv :
            /\ ~(min_amount # <<>> /\ inv.totals.grand_total <= min_amount[1])
            /\ ~(max_amount # <<>> /\ inv.totals.grand_total > max_amount[1]))

\* SearchAgent.filter_by_amount_range(invoices, min_amount, max_amount); a
\* bound is <<n>>, and <<>> when it is None
filter_by_amount_range(invs, min_amount, max_amount) ==
    IF invs = <<>> THEN <<>>
    ELSE SelectSeq(invs, LAMBDA inv :
            /\ ~(min_amount # <<>> /\ inv.totals.grand_total < min_amount[1])
            /\ ~(max_amount # <<>> /\ inv.totals.grand_total > max_amount[1]))

\* SearchAgent.filter_by_payment_status(invoices, statuses)
filter_by_payment_status(invs, statuses) ==
    IF invs = <<>> \/ statuses = {} THEN invs
    ELSE SelectSeq(invs, LAMBDA inv : inv.payment_status \in statuses)

\* SearchAgent.filter_by_gst_rate(invoices, gst_rates)
filter_by_gst_rate(invs, gst_rates) ==
    IF invs = <<>> \/ gst_rates = {} THEN invs
    ELSE SelectSeq(invs, LAMBDA inv :
            \E k \in 1..Len(inv.items) : inv.items[k].gst_rate \in gst_rates)

\* SearchAgent.search_by_customer(invoices, query, fuzzy)
search_by_customer(invs, query, fuzzy) ==
    IF invs = <<>> \/ query = <<>> THEN invs
    ELSE LET q == str_strip(str_lower(query))
         IN  IF fuzzy
             THEN SelectSeq(invs, LAMBDA inv : str_in(q, str_lower(inv.customer.name)))
             ELSE SelectSeq(invs, LAMBDA inv : str_lower(inv.customer.name) = q)

\* SearchAgent.search_by_invoice_number(invoices, query)
search_by_invoice_number(invs, query) ==
    IF invs = <<>> \/ query = <<>> THEN invs
    ELSE LET q == str_strip(str_upper(query))
         IN  SelectSeq(invs, LAMBDA inv : str_in(q, str_upper(inv.invoice_number)))

\* SearchAgent.search_by_item(invoices, query)
search_by_item(invs, query) ==
    IF invs = <<>> \/ query = <<>> THEN invs
    ELSE LET q == str_strip(str_lower(query))
         IN  SelectSeq(invs, LAMBDA inv :
                \E k \in 1..Len(inv.items) : str_in(q, str_lower(inv.items[k].name)))

\* filters.get(key) for a bound: <<n>>, or <<>> for None
GetBound(filters, key) ==
    IF key \in DOMAIN filters THEN <<filters[key]>> ELSE <<>>

\* the test that guards the k-th stage of SearchAgent.advanced_search
StageApplies(k, filters) ==
    IF k = 1 THEN \/ Get(filters, "date_preset", "") # ""
                  \/ Get(filters, "start_date", NoDate) # NoDate
                  \/ Get(filters, "end_date", NoDate) # NoDate
    ELSE IF k = 2 THEN \/ GetBound(filters, "min_amount") # <<>>
                       \/ GetBound(filters, "max_amount") # <<>>
    ELSE IF k = 3 THEN Get(filters, "payment_statuses", {}) # {}
    ELSE IF k = 4 THEN Get(filters, "gst_rates", {}) # {}
    ELSE IF k = 5 THEN Get(filters, "customer_query", <<>>) # <<>>
    ELSE IF k = 6 THEN Get(filters, "invoice_number", <<>>) # <<>>
    ELSE Get(filters, "item_query", <<>>) # <<>>

\* the filter the k-th stage calls when its test holds
StageFilter(k, invs, filters, day) ==
    IF k = 1
    THEN filter_by_date_range(invs, Get(filters, "start_date", NoDate),
                              Get(filters, "end_date", NoDate),
                              Get(filters, "date_preset", ""), day)
    ELSE IF k = 2
    THEN filter_by_amount_range(invs, GetBound(filters, "min_amount"),
                                GetBound(filters, "max_amount"))
    ELSE IF k = 3 THEN filter_by_payment_status(invs, filters.payment_statuses)
    ELSE IF k = 4 THEN filter_by_gst_rate(invs, filters.gst_rates)
    ELSE IF k = 5
    THEN search_by_customer(invs, filters.customer_query,
                            Get(filters, "fuzzy_search", TRUE))
    ELSE IF k = 6 THEN search_by_invoice_number(invs, filters.invoice_number)
    ELSE search_by_item(invs, filters.item_query)

\* the k-th stage of SearchAgent.advanced_search
SearchStage(k, invs, filters, day) ==
    IF StageApplies(k, filters) THEN StageFilter(k, invs, filters, day) ELSE invs

\* the stages applied one after another in the given order
RECURSIVE ApplyStages(_, _, _, _)
ApplyStages(order, invs, filters, day) ==
    IF order = <<>> THEN invs
    ELSE ApplyStages(Tail(order), SearchStage(Head(order), invs, filters, day),
                     filters, day)

\* the order of the stages in SearchAgent.advanced_search
StageOrder == <<1, 2, 3, 4, 5, 6, 7>>

\* SearchAgent.advanced_search(invoices, filters), called on the day `today`
advanced_search(invs, filters) ==
    /\ UNCHANGED <<customers, invoices, invoice_items, payments, recurring,
                   users, request_counts, blocked_ips, now, today, checked, audit_logs, pending, tokens>>
    /\ result' = [op |-> "advanced_search", invoices |-> invs,
                  filters |-> filters, day |-> today,
                  ret |-> ApplyStages(StageOrder, invs, filters, today)]

MaxSearchLen == 2

SampleInvoices ==
    << [invoice_number |-> <<"I", "N", "V", "1">>, date |-> <<2025, 1, 30>>,
        totals |-> [grand_total |-> 236000], payment_status |-> "Paid",
        customer |-> [name |-> <<"A", "s", "h", "a">>],
        items |-> << [name |-> <<"P", "e", "n">>, gst_rate |-> 5],
                     [name |-> <<"D", "e", "s", "k">>, gst_rate |-> 18] >>],
       [invoice_number |-> <<"I", "N", "V", "2">>, date |-> <<2025, 1, 27>>,
        totals |-> [grand_total |-> 560000], payment_status |-> "Pending",
        customer |-> [name |-> <<"a", "s", "h", "a", " ", "R", "a", "o">>],
        items |-> << [name |-> <<"D", "e", "s", "k">>, gst_rate |-> 18] >>],
       [invoice_number |-> <<"I", "N", "V", "1", "2">>, date |-> <<2024, 12, 31>>,
        totals |-> [grand_total |-> 236000], payment_status |-> "Partial",
        customer |-> [name |-> <<"R", "a", "v", "i">>],
        items |-> << [name |-> <<"C", "l", "i", "p">>, gst_rate |-> 0] >>] >>

\* the invoice lists given to the search: up to MaxSearchLen different samples
InvoiceListInputs ==
    { [i \in 1..Len(p) |-> SampleInvoices[p[i]]] :
        p \in { q \in UNION { [1..n -> 1..Len(SampleInvoices)] : n \in 0..MaxSearchLen } :
                  \A i, j \in 1..Len(q) : q[i] = q[j] => i = j } }

EmptyFilters == [k \in {} |-> 0]

FilterInputs ==
    { EmptyFilters }
    \cup { [date_preset |-> p] : p \in Presets }
    \cup { [date_preset |-> "this_week", start_date |-> <<2025, 3, 1>>],
           [date_preset |-> "", end_date |-> <<2025, 1, 27>>],
           [start_date |-> <<2025, 1, 27>>],
           [start_date |-> <<2025, 1, 27>>, end_date |-> <<2025, 1, 30>>],
           [start_date |-> NoDate, end_date |-> NoDate] }
    \cup { [min_amount |-> 236000], [max_amount |-> 236000], [min_amount |-> 0],
           [min_amount |-> 236001, max_amount |-> 560000] }
    \cup { [payment_statuses |-> {"Paid"}], [payment_statuses |-> {"Paid", "Pending"}],
           [payment_statuses |-> {}] }
    \cup { [gst_rates |-> {18}], [gst_rates |-> {0, 5}], [gst_rates |-> {}] }
    \cup { [customer_query |-> <<"A", "S", "H">>],
           [customer_query |-> <<" ", "a", "s", "h", "a", " ">>],
           [customer_query |-> <<" ", " ">>],
           [customer_query |-> <<>>],
           [customer_query |-> <<"a", "s", "h", "a">>, fuzzy_search |-> FALSE],
           [customer_query |-> <<"r", "a", "o">>, fuzzy_search |-> TRUE] }
    \cup { [invoice_number |-> <<"n", "v", "1">>],
           [invoice_number |-> <<"i", "n", "v", "1", "2", " ">>] }
    \cup { [item_query |-> <<"P", "E", "N">>], [item_query |-> <<"x">>] }
    \cup { [payment_statuses |-> {"Paid"}, min_amount |-> 1000000],
           [gst_rates |-> {18}, customer_query |-> <<"a", "s", "h", "a">>,
            max_amount |-> 300000],
           [date_preset |-> "this_month", item_query |-> <<"p", "e", "n">>,
            payment_statuses |-> {}] }

NextSearch ==
    \/ \E invs \in InvoiceListInputs, f \in FilterInputs : advanced_search(invs, f)
    \/ TickDay

SpecSearch == Init /\ [][NextSearch]_vars

\* the date bounds the filters ask for on the given day: the preset's when one
\* is named, the explicit ones otherwise
AskedBounds(f, day) ==
    IF Get(f, "date_preset", "") \in Presets
    THEN PresetBounds(f.date_preset, day)
    ELSE <<Get(f, "start_date", NoDate), Get(f, "end_date", NoDate)>>

\* the invoice satisfies the filter under this key; a text query is used as it
\* was given when literal, and without its surrounding whitespace otherwise
SatisfiesFilter(inv, f, key, day, literal) ==
    LET text(q) == IF literal THEN q ELSE str_strip(q)
    IN  IF key = "date"
        THEN LET b == AskedBounds(f, day)
             IN  /\ b[1] # NoDate => strptime(b[1]) <= strptime(inv.date)
                 /\ b[2] # NoDate => strptime(inv.date) <= strptime(b[2])
        ELSE IF key = "min_amount" THEN inv.totals.grand_total >= f.min_amount
        ELSE IF key = "max_amount" THEN inv.totals.grand_total <= f.max_amount
        ELSE IF key = "payment_statuses" THEN inv.payment_status \in f.payment_statuses
        ELSE IF key = "gst_rates"
             THEN \E k \in 1..Len(inv.items) : inv.items[k].gst_rate \in f.gst_rates
        ELSE IF key = "customer_query"
             THEN IF Get(f, "fuzzy_search", TRUE)
                  THEN str_in(str_lower(text(f.customer_query)), str_lower(inv.customer.name))
                  ELSE str_lower(text(f.customer_query)) = str_lower(inv.customer.name)
        ELSE IF key = "invoice_number"
             THEN str_in(str_lower(text(f.invoice_number)), str_lower(inv.invoice_number))
        ELSE \E k \in 1..Len(inv.items) :
                 str_in(str_lower(text(f.item_query)), str_lower(inv.items[k].name))

\* the filters whose key is present
PresentFilters(f) ==
    (DOMAIN f \cap {"min_amount", "max_amount", "payment_statuses", "gst_rates",
                    "customer_query", "invoice_number", "item_query"})
    \cup (IF DOMAIN f \cap {"date_preset", "start_date", "end_date"} # {}
          THEN {"date"} ELSE {})

\* the filters whose key is present with a value that is not empty
NonEmptyFilters(f) ==
    { key \in PresentFilters(f) :
        IF key = "date" THEN TRUE
        ELSE IF key \in {"min_amount", "max_amount"} THEN TRUE
        ELSE IF key \in {"payment_statuses", "gst_rates"} THEN f[key] # {}
        ELSE f[key] # <<>> }

\* every order in which the filters that are applied can be applied
StageOrders(f) ==
    LET applied == { k \in 1..7 : StageApplies(k, f) }
        n       == Cardinality(applied)
    IN  { o \in [1..n -> applied] : \A i, j \in 1..n : o[i] = o[j] => i = j }

C16_AnyOrder ==
    result.op = "advanced_search"
    => \A o \in StageOrders(result.filters) :
          ApplyStages(o, result.invoices, result.filters, result.day) = result.ret

\* C16 as stated: advanced_search(invoices, filters) returns, in their input
\* order, exactly those invoices that satisfy every filter whose key is present
\* in filters (date range, amount range, payment status, GST rate, customer,
\* invoice number, item name); the result is the same whatever order the
\* filters are applied in.
C16_SearchAsStated ==
    /\ result.op = "advanced_search"
       => result.ret = SelectSeq(result.invoices, LAMBDA inv :
                          \A key \in PresentFilters(result.filters) :
                              SatisfiesFilter(inv, result.filters, key, result.day, TRUE))
    /\ C16_AnyOrder

\* C16 amended: advanced_search(invoices, filters) returns, in their input
\* order, exactly those invoices that satisfy every filter whose key is present
\* in filters with a value that is not empty, a text query being taken without
\* its surrounding whitespace (date range, amount range, payment status, GST
\* rate, customer, invoice number, item name); the result is the same whatever
\* order the filters are applied in.
C16_Search ==
    /\ result.op = "advanced_search"
       => result.ret = SelectSeq(result.invoices, LAMBDA inv :
                          \A key \in NonEmptyFilters(result.filters) :
                              SatisfiesFilter(inv, result.filters, key, result.day, FALSE))
    /\ C16_AnyOrder

\* two filters at once kept the second of two invoices and dropped the first,
\* which meets the lower bound exactly but fails the other filter's test
C16_Witness ==
    /\ result.op = "advanced_search"
    /\ Len(result.invoices) = 2
    /\ Len(result.ret) = 1
    /\ result.ret[1] = result.invoices[2]
    /\ DOMAIN result.filters = {"min_amount", "max_amount"}

(***************************************************************************)
(* Tax Calculation Engine (gst_calculator.py). A price is a whole number   *)
(* of paise; an unrounded amount is a whole number of 1/200 paise, which   *)
(* is exact for a price with two decimals, a whole quantity and the halved *)
(* tax. The code computes in binary floating point, whose error is far     *)
(* smaller than the distance of any such amount from the next rounding     *)
(* boundary unless the amount lies on the boundary itself; there the       *)
(* direction depends on the representation error, and both are allowed.    *)
(***************************************************************************)
VALID_RATES == {0, 5, 12, 18, 28}

UnitsPerPaisa == 200

\* GSTCalculator.validate(items)['valid']
GSTCalculator_validate(items) ==
    /\ items # <<>>
    /\ \A i \in 1..Len(items) :
          /\ {"name", "price", "quantity", "gst_rate"} \subseteq DOMAIN items[i]
          /\ items[i].price > 0
          /\ items[i].quantity > 0
          /\ items[i].gst_rate \in VALID_RATES

\* item_subtotal = price * quantity
ItemSubtotalUnits(item) == item.price * item.quantity * UnitsPerPaisa

\* a slip: the tax is taken on one unit, whatever the quantity
ItemGstUnits_OneUnit(item) == (item.price * UnitsPerPaisa * item.gst_rate) \div 100

\* item_gst = item_subtotal * (gst_rate / 100)
ItemGstUnits(item) == (ItemSubtotalUnits(item) * item.gst_rate) \div 100

\* round(x, 2): the paise values x can be rounded to
Round2(units) ==
    LET fl  == units \div UnitsPerPaisa
        rem == units % UnitsPerPaisa
    IN  IF 2 * rem < UnitsPerPaisa THEN {fl}
        ELSE IF 2 * rem > UnitsPerPaisa THEN {fl + 1}
        ELSE {fl, fl + 1}

\* the entries item_details can hold for one item: cgst and sgst are the same
\* expression item_gst / 2 and round alike
ItemDetails(item) ==
    { [name      |-> item.name,
       price     |-> item.price,
       quantity  |-> item.quantity,
       gst_rate  |-> item.gst_rate,
       subtotal  |-> s,
       cgst      |-> c,
       sgst      |-> c,
       total_gst |-> g,
       total     |-> t] :
        s \in Round2(ItemSubtotalUnits(item)),
        c \in Round2(ItemGstUnits(item) \div 2),
        g \in Round2(ItemGstUnits(item)),
        t \in Round2(ItemSubtotalUnits(item) + ItemGstUnits(item)) }

\* the lists item_details can be for the given items
RECURSIVE ItemDetailLists(_)
ItemDetailLists(items) ==
    IF items = <<>> THEN { <<>> }
    ELSE { <<d>> \o rest : d \in ItemDetails(Head(items)),
                           rest \in ItemDetailLists(Tail(items)) }

\* the dicts GSTCalculator.calculate(items) can return for valid items
CalculateReturns(items) ==
    LET subtotal  == SumSeq([i \in 1..Len(items) |-> ItemSubtotalUnits(items[i])])
        total_gst == SumSeq([i \in 1..Len(items) |-> ItemGstUnits(items[i])])
    IN  { [items          |-> ds,
           subtotal       |-> s,
           total_gst      |-> g,
           grand_total    |-> t,
           total_items    |-> Len(items),
           total_quantity |-> SumSeq([i \in 1..Len(items) |-> items[i].quantity])] :
            ds \in ItemDetailLists(items),
            s \in Round2(subtotal),
            g \in Round2(total_gst),
            t \in Round2(subtotal + total_gst) }

\* GSTCalculator.calculate(items)
calculate(items) ==
    /\ UNCHANGED <<customers, invoices, invoice_items, payments, recurring,
                   users, request_counts, blocked_ips, now, today, checked, audit_logs, pending, tokens>>
    /\ IF ~GSTCalculator_validate(items)
       THEN result' = [op |-> "calculate", given |-> items, raised |-> "ValueError"]
       ELSE \E ret \in CalculateReturns(items) :
               result' = [op |-> "calculate", given |-> items, ret |-> ret]

CalcPriceInputs == {1, 100, 333, 1050, 9999, 100000, 123456}

CalcQuantityInputs == {1, 2, 3}

CalcItemInputs ==
    { [name |-> "Item", price |-> p, quantity |-> q, gst_rate |-> r] :
        p \in CalcPriceInputs, q \in CalcQuantityInputs, r \in VALID_RATES }

CalcListInputs ==
    { <<it>> : it \in CalcItemInputs }
    \cup { <<>>,
           << [name |-> "Item", price |-> 0, quantity |-> 1, gst_rate |-> 5] >>,
           << [name |-> "Item", price |-> 100, quantity |-> 0, gst_rate |-> 5] >>,
           << [name |-> "Item", price |-> 100, quantity |-> 1, gst_rate |-> 7] >>,
           << [name |-> "Item", price |-> 100, quantity |-> 1] >>,
           << [name |-> "Pen", price |-> 1050, quantity |-> 1, gst_rate |-> 5],
              [name |-> "Desk", price |-> 100000, quantity |-> 3, gst_rate |-> 18] >> }

NextCalc ==
    \E items \in CalcListInputs : calculate(items)

SpecCalc == Init /\ [][NextCalc]_vars

\* the paise value is a 2-decimal value nearest to the exact amount
RoundedTo2(paise, units) ==
    LET d == UnitsPerPaisa * paise - units
    IN  2 * d <= UnitsPerPaisa /\ 2 * d >= -UnitsPerPaisa

\* the last call was calculate on a single accepted item
SingleItemCalculated ==
    /\ result.op = "calculate"
    /\ "ret" \in DOMAIN result
    /\ Len(result.given) = 1

\* the exact value of p*q*r/100 of the single item, in 1/200 paise
ExactGst == 2 * result.given[1].price * result.given[1].quantity * result.given[1].gst_rate

\* the exact value of p*q of the single item, in 1/200 paise
ExactSubtotal == UnitsPerPaisa * result.given[1].price * result.given[1].quantity

C17_Totals ==
    SingleItemCalculated
    => /\ RoundedTo2(result.ret.total_gst, ExactGst)
       /\ RoundedTo2(result.ret.grand_total, ExactSubtotal + ExactGst)
       /\ result.ret.items[1].cgst = result.ret.items[1].sgst

NextRestore ==
    \/ \E c \in CustomerInputsDB, its \in {<<ItemClip>>, <<ItemPen, ItemDesk>>} :
            create_invoice(c, its, 2025)
    \/ \E n \in InvoiceNumberInputs, a \in {60}, m \in PaymentMethodInputs :
            add_payment(n, a, m)
    \/ \E f \in BackupFileInputs : restore_backup(f)

SpecRestore == Init /\ [][NextRestore]_vars

\* the rows of the file whose phone is not stored
NewRows(filename, custs) ==
    IF filename \in DOMAIN BackupDir
    THEN SelectSeq(BackupDir[filename].customers,
                   LAMBDA r : \A i \in 1..Len(custs) : custs[i].phone # r.phone)
    ELSE <<>>

\* exactly one customer was inserted for each of the rows
InsertedFor(rows) ==
    /\ Len(customers') = Len(customers) + Len(rows)
    /\ \A k \in 1..Len(rows) :
          \E i \in (Len(customers) + 1)..Len(customers') :
             /\ customers'[i].phone = rows[k].phone
             /\ customers'[i].name = rows[k].name

\* nothing stored is changed or deleted, and a second run on the same file
\* inserts nothing
C18_KeepsAndRepeats ==
    result'.op = "restore_backup"
    => /\ Len(customers') >= Len(customers)
       /\ \A i \in 1..Len(customers) : customers'[i] = customers[i]
       /\ invoices' = invoices
       /\ invoice_items' = invoice_items
       /\ payments' = payments
       /\ (result.op = "restore_backup" /\ result.filename = result'.filename)
          => customers' = customers

RaceCustomerInputs ==
    { c \in CustomerInputs : validate_customer_details(c) }

NextRace ==
    \/ \E p \in Callers, c \in RaceCustomerInputs, its \in {<<ItemClip>>, <<ItemPen, ItemDesk>>}, y \in Years :
            create_invoice_begin(p, c, its, y)
    \/ \E p \in Callers : create_invoice_save(p)

SpecRace == Init /\ [][NextRace]_vars

\* the invoice with this number is stored with this customer and these items
StoredTogether(invoice_data) ==
    LET i == Len(invoices')
        k == CustomerByPhone(customers', invoice_data.customer.phone)
    IN  /\ i = Len(invoices) + 1
        /\ invoices'[i].invoice_number = invoice_data.invoice_number
        /\ k # 0
        /\ invoices'[i].customer_id = k
        /\ customers'[k].name = invoice_data.customer.name
        /\ invoice_items' = invoice_items \o InvoiceItemRows(invoice_data, i)

\* C19: create_invoice of Persistence Operations is all-or-nothing: when it
\* fails (for example because the invoice number is already stored), the
\* stored customers, invoices and invoice items are exactly what they were
\* before the call; when it succeeds, the customer upsert, the invoice and all
\* of its items are stored together.
C19_AllOrNothing ==
    [][ \A p \in Callers :
          (pending[p] # NoneValue /\ pending'[p] = NoneValue)
          => IF result'.success
             THEN StoredTogether(pending[p])
             ELSE /\ customers' = customers
                  /\ invoices' = invoices
                  /\ invoice_items' = invoice_items ]_vars

UniqueInvoiceNumbers(invs) ==
    \A i, j \in 1..Len(invs) : invs[i].invoice_number = invs[j].invoice_number => i = j

\* the save of a call in flight: refused when the number it built was stored
\* by the other call in the meantime, stored otherwise
C20_Step ==
    \A p \in Callers :
       (pending[p] # NoneValue /\ pending'[p] = NoneValue)
       => IF ~NoStoredInvoice(invoices, pending[p].invoice_number)
          THEN /\ result'.success = FALSE
               /\ result'.error = "Database error"
               /\ invoices' = invoices
               /\ invoice_items' = invoice_items
          ELSE /\ result'.success
               /\ invoices' = Append(invoices, invoices'[Len(invoices')])
               /\ invoices'[Len(invoices')].invoice_number = pending[p].invoice_number

\* C20: when two create_invoice operations of the persisted orchestrator
\* interleave so that both read the same last invoice number, no state is ever
\* reached in which two stored invoices share an invoice number: one creation
\* is stored and the other returns success=False with a database error.
C20_NoSharedNumber == []UniqueInvoiceNumbers(invoices) /\ [][C20_Step]_vars

\* both calls built INV-2025-1000 on the empty table; the first save stored it
\* and the second was refused
C20_Witness ==
    /\ result.op = "create_invoice"
    /\ ~result.success
    /\ result.error = "Database error"
    /\ Len(invoices) = 1
    /\ invoices[1].invoice_number = InvoiceNumber(2025, 1000)
    /\ \A p \in Callers : pending[p] = NoneValue

(***************************************************************************)
(* The customer upsert called on a stored phone                            *)
(***************************************************************************)
\* DatabaseOperations.create_or_get_customer(db, customer_data), called on
\* its own; the returned Customer is the row with the given phone
DatabaseOperations_create_or_get_customer(customer_data) ==
    /\ customers' = create_or_get_customer(customers, customer_data)
    /\ result' = [op            |-> "create_or_get_customer",
                  customer_data |-> customer_data,
                  ret           |-> customers'[CustomerByPhone(customers',
                                                        customer_data.phone)]]
    /\ UNCHANGED <<invoices, invoice_items, payments, recurring, users,
                   request_counts, blocked_ips, now, today, checked, audit_logs, pending, tokens>>

UpsertOptionalInputs ==
    { [x \in {} |-> ""],
      [email |-> "a@x.in"],
      [email |-> "", state |-> "Kerala"],
      [email |-> "b@x.in", address |-> "12 MG Road", gst_number |-> "36ABCDE1234F1Z5",
       state |-> "Goa"] }

UpsertCustomerInputs ==
    { [name |-> n, phone |-> p] @@ o :
        n \in {"Asha", "Ravi"}, p \in {"9876543210", "9123456789"},
        o \in UpsertOptionalInputs }

NextUpsert ==
    \E cd \in UpsertCustomerInputs : DatabaseOperations_create_or_get_customer(cd)

SpecUpsert == Init /\ [][NextUpsert]_vars

CustomerFields == {"name", "email", "address", "gst_number", "state"}

\* the value a newly inserted customer gets for a field that is left out
InsertDefault(field) == IF field = "state" THEN "Telangana" ELSE ""

\* C21: create_or_get_customer called with a phone that is already stored
\* sets name, email, address, GST number and state of the stored customer to
\* the supplied values, a field that is left out not keeping its old value,
\* and leaves the number of customers as it was.
C21_Overwrite ==
    [][ ( /\ result'.op = "create_or_get_customer"
          /\ CustomerByPhone(customers, result'.customer_data.phone) # 0 )
        => LET cd == result'.customer_data
               k  == CustomerByPhone(customers, cd.phone)
           IN  /\ Len(customers') = Len(customers)
               /\ \A f \in CustomerFields :
                     IF f \in DOMAIN cd
                     THEN customers'[k][f] = cd[f]
                     ELSE \/ customers'[k][f] # customers[k][f]
                          \/ customers[k][f] = InsertDefault(f) ]_vars

\* what the call does on a stored phone: the supplied fields are overwritten,
\* the fields left out keep their stored values, no customer is added
C21_Merge ==
    [][ ( /\ result'.op = "create_or_get_customer"
          /\ CustomerByPhone(customers, result'.customer_data.phone) # 0 )
        => LET cd == result'.customer_data
               k  == CustomerByPhone(customers, cd.phone)
           IN  /\ Len(customers') = Len(customers)
               /\ \A f \in CustomerFields :
                     customers'[k][f] = Get(cd, f, customers[k][f]) ]_vars

(***************************************************************************)
(* HTTP API: the request-logging middleware (routes.py). A path is the     *)
(* sequence of its characters.                                             *)
(***************************************************************************)
\* str(n) for a natural number n
RECURSIVE str_int(_)
str_int(n) ==
    LET d == <<"0", "1", "2", "3", "4", "5", "6", "7", "8", "9">>[(n % 10) + 1]
    IN  IF n < 10 THEN <<d>> ELSE Append(str_int(n \div 10), d)

\* the text of an invoice number, as it stands in a URL
InvoiceNumberText(number) ==
    <<"I", "N", "V", "-">> \o str_int(number[2]) \o <<"-">> \o str_int(number[3])

\* s.startswith(prefix)
str_startswith(s, prefix) ==
    Len(s) >= Len(prefix) /\ SubSeq(s, 1, Len(prefix)) = prefix

\* s.split(sep) for a separator of one character
RECURSIVE str_split(_, _)
str_split(s, sep) ==
    IF \A i \in 1..Len(s) : s[i] # sep THEN <<s>>
    ELSE LET i == CHOOSE i \in 1..Len(s) :
                     s[i] = sep /\ \A j \in 1..(i - 1) : s[j] # sep
         IN  <<SubSeq(s, 1, i - 1)>> \o str_split(SubSeq(s, i + 1, Len(s)), sep)

W_api == <<"a", "p", "i">>
W_invoice == <<"i", "n", "v", "o", "i", "c", "e">>
W_payment == <<"p", "a", "y", "m", "e", "n", "t">>
W_health == <<"h", "e", "a", "l", "t", "h">>

\* the path "/" + "/".join(segments)
RECURSIVE UrlPath(_)
UrlPath(segments) ==
    IF segments = <<>> THEN <<>>
    ELSE <<"/">> \o Head(segments) \o UrlPath(Tail(segments))

\* the paths of the routes, by the name of the handler
RoutePath(route, invoice_number) ==
    IF route = "record_payment"
    THEN UrlPath(<<W_api, W_invoice, InvoiceNumberText(invoice_number), W_payment>>)
    ELSE IF route = "get_invoice"
    THEN UrlPath(<<W_api, W_invoice, InvoiceNumberText(invoice_number)>>)
    ELSE IF route = "health_check"
    THEN UrlPath(<<W_health>>)
    ELSE UrlPath(<<W_api, W_payment, InvoiceNumberText(invoice_number)>>)

RouteMethod(route) ==
    IF route \in {"get_invoice", "health_check"} THEN "GET" ELSE "POST"

\* log_requests: the action code derived from the method and the path
AuditAction(method, path) ==
    IF method = "POST"
    THEN IF str_in(W_invoice, path) THEN "CREATE_INVOICE"
         ELSE IF str_in(W_payment, path) THEN "CREATE_PAYMENT"
         ELSE "VIEW"
    ELSE "VIEW"

\* log_requests: the paths that are logged
IsLoggedPath(path) ==
    \/ str_startswith(path, UrlPath(<<W_api, W_invoice>>))
    \/ str_startswith(path, UrlPath(<<W_api, W_payment>>))

\* log_requests: the AuditLog row AuditAgent.log_action inserts
AuditEntry(method, path) ==
    LET parts == str_split(path, "/")
    IN  [user        |-> "system",
         action      |-> AuditAction(method, path),
         entity_type |-> IF Len(parts) > 2 THEN parts[3] ELSE <<"unknown">>,
         status      |-> "success"]

\* the response of the handler the request is routed to (call_next)
RouteResponse(route, invoice_number, amount) ==
    IF route = "record_payment"
    THEN LET ret == add_payment_return(invoice_number, amount, "UPI")
         IN  IF ret.success THEN 200 ELSE RecordPaymentFailureStatus
    ELSE IF route = "get_invoice"
    THEN (IF get_invoice_by_number(invoices, invoice_number) # 0 THEN 200 ELSE 404)
    ELSE IF route = "health_check" THEN 200
    ELSE 404

\* log_requests(request, call_next) around one request: the handler runs,
\* then the audit row is written for the logged paths
log_requests(route, invoice_number, amount) ==
    LET method == RouteMethod(route)
        path   == RoutePath(route, invoice_number)
    IN  /\ Len(audit_logs) < MaxAuditLogs
        /\ IF route = "record_payment"
           THEN add_payment_effect(invoice_number, amount, "UPI")
           ELSE UNCHANGED <<customers, invoices, invoice_items, payments, recurring,
                            users, request_counts, blocked_ips, now, today, checked, pending,
                            tokens>>
        /\ audit_logs' = IF IsLoggedPath(path)
                         THEN Append(audit_logs, AuditEntry(method, path))
                         ELSE audit_logs
        /\ result' = [op |-> "log_requests", method |-> method, route |-> route,
                      path |-> path,
                      status_code |-> RouteResponse(route, invoice_number, amount)]

RouteInputs == {"record_payment", "get_invoice", "health_check", "no_route"}

LogInvoiceNumberInputs == {InvoiceNumber(2025, 1000), InvoiceNumber(2025, 1001)}

NextLog ==
    \/ \E c \in CustomerInputsDB : create_invoice(c, <<ItemClip>>, 2025)
    \/ \E r \in RouteInputs, n \in LogInvoiceNumberInputs, a \in {0, 60} :
            log_requests(r, n, a)

SpecLog == Init /\ [][NextLog]_vars

\* C22: for each POST request that records a payment through the API (POST
\* /api/invoice/{invoice_number}/payment), the request-logging middleware
\* writes one audit entry whose action is CREATE_PAYMENT.
C22_PaymentLogged ==
    [][ (result'.op = "log_requests" /\ result'.route = "record_payment")
        => /\ Len(audit_logs') = Len(audit_logs) + 1
           /\ audit_logs'[Len(audit_logs')].action = "CREATE_PAYMENT" ]_vars

\* what the middleware writes for such a request: one entry, CREATE_INVOICE
C22_LoggedAsInvoice ==
    [][ (result'.op = "log_requests" /\ result'.route = "record_payment")
        => /\ Len(audit_logs') = Len(audit_logs) + 1
           /\ audit_logs'[Len(audit_logs')].action = "CREATE_INVOICE"
           /\ audit_logs'[Len(audit_logs')].entity_type = W_invoice ]_vars

(***************************************************************************)
(* The quota of each limit type, over the accepted requests                *)
(***************************************************************************)
\* the calls in the history that were accepted
Accepted == [a \in { c \in BagToSet(checked) : c[4] } |-> checked[a]]

\* a caller of check_rate_limit that keeps a record of the calls that were
\* decided by the rate limit
limited_request(identifier, limit_type) ==
    LET call == <<identifier, limit_type, now, result'.allowed>>
    IN  /\ check_rate_limit(identifier, limit_type)
        /\ IF identifier \in blocked_ips
           THEN UNCHANGED checked
           ELSE /\ IF result'.allowed
                   THEN BagCardinality(Accepted) < MaxAccepted
                   ELSE CopiesIn(call, checked) < MaxRejected
                /\ checked' = checked (+) SetToBag({call})

QuotaTypeInputs == {"auth", "default"}

NextLimit ==
    \/ \E id \in Identifiers, t \in QuotaTypeInputs : limited_request(id, t)
    \/ \E id \in Identifiers : block_ip(id, 1)
    \/ \E id \in Identifiers : unblock_ip(id)
    \/ TickSec

SpecLimit == Init /\ [][NextLimit]_vars

\* the requests of id accepted under limit type t at a time from lo to hi,
\* lo itself included or not
AcceptedUnder(id, t, lo, hi, with_lo) ==
    LET span == { a \in BagToSet(Accepted) :
                    /\ a[1] = id /\ a[2] = t
                    /\ a[3] <= hi
                    /\ (lo < a[3] \/ (with_lo /\ lo = a[3])) }
    IN  [a \in span |-> Accepted[a]]

\* the times at which a time span that matters can end
AcceptedTimes == { a[3] : a \in BagToSet(Accepted) }

\* C23 as stated: for every identifier and limit type t, no more than t's
\* request limit of the requests accepted under t lie in any time span of
\* length equal to t's window, both ends of the span included.
C23_QuotaAsStated ==
    \A id \in Identifiers, t \in QuotaTypeInputs, hi \in AcceptedTimes :
        BagCardinality(AcceptedUnder(id, t, hi - RateLimitConfig(t).window * UnitsPerSecond,
                          hi, TRUE))
            <= RateLimitConfig(t).requests

\* C23: for every identifier and limit type t, no more than t's request limit
\* of the requests accepted under t lie in any time span shorter than t's
\* window (two requests exactly one window apart are not counted together),
\* after any sequence of check_rate_limit, block_ip and unblock_ip calls.
C23_Quota ==
    \A id \in Identifiers, t \in QuotaTypeInputs, hi \in AcceptedTimes :
        BagCardinality(AcceptedUnder(id, t, hi - RateLimitConfig(t).window * UnitsPerSecond,
                          hi, FALSE))
            <= RateLimitConfig(t).requests

\* the auth quota was used up at 0 s, a further auth request was turned away
\* at 59.5 s, and the identifier was blocked and unblocked in between
C23_Witness ==
    /\ BagCardinality(AcceptedUnder("ip1", "auth", -1, 0, FALSE)) = 5
    /\ now = SecInstant(2)
    /\ result.op = "check_rate_limit" /\ result.limit_type = "auth"
    /\ result.allowed = FALSE /\ result.reason = "Rate limit exceeded"
    /\ "ip1" \notin blocked_ips

\* the requests of id accepted under any limit type later than lo, up to hi
AcceptedOfAnyType(id, lo, hi) ==
    LET span == { a \in BagToSet(Accepted) : a[1] = id /\ lo < a[3] /\ a[3] <= hi }
    IN  [a \in span |-> Accepted[a]]

\* C24: the request history used by check_rate_limit is kept per identifier
\* only, not per limit type: a call under limit type t by an identifier that
\* is not blocked is accepted exactly when fewer than t's limit requests of
\* that identifier, accepted under whatever limit type, lie in the window (so
\* after 5 accepted default requests within 60 seconds the next auth request
\* is rejected).
C24_SharedHistory ==
    [][ \A id \in Identifiers, t \in QuotaTypeInputs :
          ( /\ result'.op = "check_rate_limit" /\ result'.limit_type = t
            /\ id \notin blocked_ips )
          => ( result'.allowed <=>
                 BagCardinality(AcceptedOfAnyType(id,
                     now - RATE_LIMITS[t].window * UnitsPerSecond, now))
                   < RATE_LIMITS[t].requests ) ]_vars

\* five default requests were accepted at 0 s, no auth request ever was, and
\* the auth request at 59.5 s has been rejected
C24_Witness ==
    /\ BagCardinality(AcceptedUnder("ip1", "default", -1, 0, FALSE)) = 5
    /\ \A a \in BagToSet(Accepted) : a[2] # "auth"
    /\ now = SecInstant(2)
    /\ result.op = "check_rate_limit" /\ result.limit_type = "auth"
    /\ result.allowed = FALSE /\ result.reason = "Rate limit exceeded"
    /\ result.current_count = 5
    /\ "ip1" \notin blocked_ips

\* the time of the last accepted request of id, of whatever limit type
LastAccepted(id) ==
    LET times == { a[3] : a \in { c \in BagToSet(Accepted) : c[1] = id } }
    IN  CHOOSE m \in times : \A x \in times : x <= m

\* the rejected calls of id under limit type t later than lo
RejectedSince(id, t, lo) ==
    LET span == { c \in BagToSet(checked) :
                    c[1] = id /\ c[2] = t /\ ~c[4] /\ lo < c[3] }
    IN  [c \in span |-> checked[c]]

C25_Step ==
    \A id \in Identifiers, t \in QuotaTypeInputs :
        ( /\ result'.op = "check_rate_limit" /\ result'.limit_type = t
          /\ id \notin blocked_ips )
        => /\ ~result'.allowed =>
                \A i \in 1..Len(request_counts'[id]) :
                    /\ request_counts'[id][i] # now
                       \/ \E j \in 1..Len(request_counts[id]) :
                             request_counts[id][j] = now
                    /\ Len(request_counts'[id]) <= Len(request_counts[id])
           /\ ( /\ \E c \in BagToSet(Accepted) : c[1] = id
                /\ now >= LastAccepted(id) + RATE_LIMITS[t].window * UnitsPerSecond )
              => result'.allowed

\* C25: a rejected check_rate_limit call records no timestamp, so rejected
\* retries never extend the wait: an unblocked identifier that was rejected
\* under limit type t is accepted again at the latest once a full window of t
\* has elapsed since its last accepted request, however many rejected
\* requests it made in between.
C25_RejectedNotRecorded == [][C25_Step]_vars

\* the auth quota was used up at 0 s, two auth requests were rejected at
\* 59.5 s, and the auth request at 60 s has been accepted
C25_Witness ==
    /\ BagCardinality(AcceptedUnder("ip1", "auth", -1, 0, FALSE)) = 5
    /\ BagCardinality(RejectedSince("ip1", "auth", 0)) = MaxRejected
    /\ now = SecInstant(3)
    /\ result.op = "check_rate_limit" /\ result.limit_type = "auth"
    /\ result.allowed = TRUE /\ result.current_count = 1
    /\ request_counts["ip1"] = <<SecInstant(3)>>
    /\ "ip1" \notin blocked_ips

(***************************************************************************)
(* Generating from a template whatever its status                          *)
(***************************************************************************)
GenFrequencyInputs == {"daily", "weekly", "monthly"}

GenStartDateInputs == { <<2025, 1, 30>> }

GenEndDateInputs == { NoDate, <<2025, 3, 1>> }

GenStatusInputs == {"active", "paused", "cancelled", "completed"}

NextGen ==
    \/ \E f \in GenFrequencyInputs, sd \in GenStartDateInputs, ed \in GenEndDateInputs :
            create_recurring_invoice("Rent", RecurringCustomer, <<ItemPen>>, f,
                                     sd, ed, FALSE, "")
    \/ \E id \in 1..MaxTemplates : generate_invoice_from_template(id)
    \/ \E id \in 1..MaxTemplates, st \in GenStatusInputs : update_status(id, st)

SpecGen == Init /\ [][NextGen]_vars

\* the interval in days of each frequency
IntervalDays ==
    [daily |-> 1, weekly |-> 7, biweekly |-> 14,
     monthly |-> 30, quarterly |-> 90, yearly |-> 365]

\* C26: generate_invoice_from_template does not look at the template's
\* status: called on a paused, cancelled or completed template it still
\* returns success with the payload, advances next_invoice_date and increments
\* invoices_generated.
C26_StatusIgnored ==
    [][ \A id \in 1..Len(recurring) :
          ( /\ result'.op = "generate_invoice_from_template"
            /\ result'.template_id = id
            /\ recurring[id].status \in {"paused", "cancelled", "completed"} )
          => /\ result'.success
             /\ result'.invoice_data = json_loads(recurring[id].invoice_template)
             /\ strptime(recurring'[id].next_invoice_date)
                   = strptime(recurring[id].next_invoice_date)
                        + IntervalDays[recurring[id].frequency]
             /\ recurring'[id].invoices_generated
                   = recurring[id].invoices_generated + 1 ]_vars

\* a cancelled monthly template has been generated from twice
C26_Witness ==
    /\ result.op = "generate_invoice_from_template" /\ result.success
    /\ Len(recurring) = 1
    /\ recurring[1].status = "cancelled"
    /\ recurring[1].frequency = "monthly"
    /\ recurring[1].invoices_generated = 2
    /\ recurring[1].next_invoice_date = <<2025, 3, 31>>

\* C27: for every recurring template in every reachable state,
\* next_invoice_date equals start_date plus invoices_generated times the
\* frequency's interval in days, and invoices_generated never decreases.
C27_DateFollowsCount ==
    /\ [](\A id \in 1..Len(recurring) :
            strptime(recurring[id].next_invoice_date)
               = strptime(recurring[id].start_date)
                    + recurring[id].invoices_generated
                         * IntervalDays[recurring[id].frequency])
    /\ [][ \A id \in 1..Len(recurring) :
              /\ id \in 1..Len(recurring')
              /\ recurring'[id].invoices_generated >= recurring[id].invoices_generated
         ]_vars

\* a weekly template that started on 30 January 2025 has been generated from
\* twice, having been paused in between and completed by its end date or by hand
C27_Witness ==
    /\ Len(recurring) = 1
    /\ recurring[1].frequency = "weekly"
    /\ recurring[1].start_date = <<2025, 1, 30>>
    /\ recurring[1].invoices_generated = 2
    /\ recurring[1].next_invoice_date = <<2025, 2, 13>>
    /\ recurring[1].status = "completed"
    /\ result.op = "generate_invoice_from_template" /\ result.success

(***************************************************************************)
(* The current user of a token and the account's active flag               *)
(***************************************************************************)
\* get_current_user that turns away a deactivated account, as login_user does
CurrentUserReturn_ActiveOnly(us, token, t) ==
    LET token_data == VerifyReturn(token, t)
    IN  IF token_data = NoneValue THEN NoneValue
        ELSE LET i == UserByUsername(us, token_data.username)
             IN  IF i = 0 THEN NoneValue
                 ELSE IF us[i].is_active # "true" THEN NoneValue
                 ELSE UserInfo(us, i)

\* the value AuthAgent.get_current_user(token) returns at time t
CurrentUserReturn(us, token, t) ==
    LET token_data == VerifyReturn(token, t)
    IN  IF token_data = NoneValue THEN NoneValue
        ELSE LET i == UserByUsername(us, token_data.username)
             IN  IF i = 0 THEN NoneValue ELSE UserInfo(us, i)

\* AuthAgent.get_current_user(token)
get_current_user(token) ==
    /\ UNCHANGED <<customers, invoices, invoice_items, payments, recurring,
                   users, request_counts, blocked_ips, now, today, checked,
                   audit_logs, pending, tokens>>
    /\ result' = [op |-> "get_current_user", token |-> token,
                  ret |-> CurrentUserReturn(users, token, now)]

\* User.is_active is set to "false" in the database; no function of the
\* agents writes the column
deactivate_account(username) ==
    /\ UserByUsername(users, username) # 0
    /\ users' = [users EXCEPT ![UserByUsername(users, username)].is_active = "false"]
    /\ result' = [op |-> "deactivate_account", username |-> username]
    /\ UNCHANGED <<customers, invoices, invoice_items, payments, recurring,
                   request_counts, blocked_ips, now, today, checked, audit_logs,
                   pending, tokens>>

NextSession ==
    \/ \E u \in UsernameInputs, salt \in Salts :
            register_user(u, "a@x.in", "pw1", "", "user", salt)
    \/ \E u \in UsernameInputs, p \in PasswordInputs : login_user(u, p)
    \/ \E t \in { tk.token : tk \in tokens } \cup {ForgedToken} : get_current_user(t)
    \/ \E u \in UsernameInputs : deactivate_account(u)
    \/ TickAuth

SpecSession == Init /\ [][NextSession]_vars

\* C28: get_current_user does not check the account's active flag: a token
\* issued before an account was deactivated keeps resolving to that user until
\* the token expires, although login_user refuses the same account.
C28_DeactivatedStillResolves ==
    [][ /\ \A tk \in tokens :
              LET i == UserByUsername(users, tk.token.payload.sub)
              IN  ( /\ result'.op = "get_current_user" /\ result'.token = tk.token
                    /\ now < tk.issued_at + Lifetime
                    /\ i # 0 /\ users[i].is_active # "true" )
                  => /\ result'.ret # NoneValue
                     /\ result'.ret.username = users[i].username
                     /\ result'.ret.id = i
        /\ \A i \in 1..Len(users) :
              ( /\ result'.op = "login_user" /\ result'.username = users[i].username
                /\ users[i].is_active # "true" )
              => /\ ~result'.ret.success
                 /\ verify_password(result'.password, users[i].hashed_password)
                       => result'.ret.error = "Account is deactivated" ]_vars

\* asha logged in at 0 s and was deactivated; half a second before the token
\* expires it still resolves to asha
C28_Witness ==
    /\ result.op = "get_current_user"
    /\ result.ret # NoneValue /\ result.ret.username = "asha"
    /\ now = Lifetime - 1
    /\ \E tk \in tokens : tk.token = result.token /\ tk.issued_at = 0
    /\ users[UserByUsername(users, "asha")].is_active = "false"

(***************************************************************************)
(* The order of the payment statuses                                       *)
(***************************************************************************)
PayAmountInputs == {-100, 0, 60, 2000}

NextPay ==
    \/ \E c \in CustomerInputsDB : create_invoice(c, <<ItemPen>>, 2025)
    \/ \E n \in LogInvoiceNumberInputs, a \in PayAmountInputs :
            record_payment(n, a, "UPI")

SpecPay == Init /\ [][NextPay]_vars

\* Pending, then Partial, then Paid
StatusRank(payment_status) ==
    IF payment_status = "Paid" THEN 2
    ELSE IF payment_status = "Partial" THEN 1
    ELSE 0

\* C29 as stated: an invoice's payment_status never moves backwards (Pending,
\* then Partial, then Paid; once Paid it stays Paid) under any sequence of
\* payments that the payment-recording endpoint accepts, including payments
\* of zero or negative amount.
C29_NeverBackAsStated ==
    [][ \A i \in 1..Len(invoices) :
            StatusRank(invoices'[i].payment_status)
                >= StatusRank(invoices[i].payment_status) ]_vars

\* C29 amended: an invoice's payment_status never moves backwards when the
\* payment-recording endpoint records a payment of zero or positive amount;
\* a payment of negative amount, which the endpoint accepts as well, can move
\* it backwards.
C29_NeverBack ==
    [][ \A i \in 1..Len(invoices) :
            ( result'.op = "record_payment"
              /\ Len(payments') = Len(payments) + 1
              /\ payments'[Len(payments')].amount >= 0 )
            => StatusRank(invoices'[i].payment_status)
                  >= StatusRank(invoices[i].payment_status) ]_vars

\* an invoice of 1.10 was paid in full with 20.00 and then took a payment of
\* 0.60, staying Paid
C29_Witness ==
    /\ result.op = "record_payment" /\ result.status_code = 200
    /\ Len(payments) = 2
    /\ payments[1].invoice_id = 1 /\ payments[1].amount = 2000
    /\ payments[2].invoice_id = 1 /\ payments[2].amount = 60
    /\ invoices[1].payment_status = "Paid"

(***************************************************************************)
(* Two add_payment calls in flight on the same invoice                     *)
(***************************************************************************)
\* InvoiceAgentDB.add_payment up to the Invoice row it loads into its session
add_payment_load(caller, invoice_number, amount, payment_method) ==
    /\ pending[caller] = NoneValue
    /\ Len(payments) + Cardinality({c \in Callers : pending[c] # NoneValue}) < MaxPayments
    /\ get_invoice_by_number(invoices, invoice_number) # 0
    /\ LET invoice_id == get_invoice_by_number(invoices, invoice_number)
       IN  pending' = [pending EXCEPT ![caller] =
                          [stage          |-> "loaded",
                           invoice_number |-> invoice_number,
                           invoice_id     |-> invoice_id,
                           amount         |-> amount,
                           payment_method |-> payment_method,
                           loaded_status  |-> invoices[invoice_id].payment_status,
                           loaded_method  |-> invoices[invoice_id].payment_method,
                           grand_total    |-> invoices[invoice_id].grand_total]]
    /\ result' = [op |-> "add_payment_load", caller |-> caller]
    /\ UNCHANGED <<customers, invoices, invoice_items, payments, recurring, users,
                   request_counts, blocked_ips, now, today, checked, audit_logs,
                   tokens>>

\* PaymentOperations.add_payment up to the commit: get_total_paid reads the
\* committed Payment rows and the status is set on the loaded Invoice
add_payment_total(caller) ==
    /\ pending[caller] # NoneValue
    /\ pending[caller].stage = "loaded"
    /\ LET call       == pending[caller]
           total_paid == get_total_paid(payments, call.invoice_id) + call.amount
       IN  pending' = [pending EXCEPT ![caller] =
                          [call EXCEPT !.stage = "computed"] @@
                          [payment_status |-> PaymentStatus(total_paid, call.grand_total)]]
    /\ result' = [op |-> "add_payment_total", caller |-> caller]
    /\ UNCHANGED <<customers, invoices, invoice_items, payments, recurring, users,
                   request_counts, blocked_ips, now, today, checked, audit_logs,
                   tokens>>

\* db.commit() of the call in flight: the Payment row is inserted and the
\* Invoice columns whose value was changed in the session are written; then
\* the dict InvoiceAgentDB.add_payment returns, read after the commit
add_payment_commit(caller) ==
    /\ pending[caller] # NoneValue
    /\ pending[caller].stage = "computed"
    /\ LET call == pending[caller]
           id   == call.invoice_id
       IN  /\ payments' = Append(payments, [invoice_id     |-> id,
                                            amount         |-> call.amount,
                                            payment_method |-> call.payment_method])
           /\ invoices' = [invoices EXCEPT ![id] =
                 [@ EXCEPT !.payment_status =
                               IF call.payment_status # call.loaded_status
                               THEN call.payment_status ELSE @,
                           !.payment_method =
                               IF call.payment_method # call.loaded_method
                               THEN call.payment_method ELSE @]]
           /\ result' = [op |-> "add_payment", success |-> TRUE,
                         caller |-> caller,
                         invoice_number |-> call.invoice_number,
                         invoice_id |-> id,
                         total_paid |-> get_total_paid(payments', id),
                         remaining  |-> Max(0, call.grand_total - get_total_paid(payments', id)),
                         status     |-> invoices'[id].payment_status]
    /\ pending' = [pending EXCEPT ![caller] = NoneValue]
    /\ UNCHANGED <<customers, invoice_items, recurring, users, request_counts,
                   blocked_ips, now, today, checked, audit_logs, tokens>>

PayRaceAmountInputs == {0, 60, 2000}

NextPayRace ==
    \/ \E c \in CustomerInputsDB : create_invoice(c, <<ItemPen>>, 2025)
    \/ \E p \in Callers, a \in PayRaceAmountInputs :
            add_payment_load(p, InvoiceNumber(2025, 1000), a, "UPI")
    \/ \E p \in Callers : add_payment_total(p)
    \/ \E p \in Callers : add_payment_commit(p)

SpecPayRace == Init /\ [][NextPayRace]_vars

\* C30: when two add_payment operations on the same invoice interleave, after
\* both have committed the invoice's payment_status still agrees with the sum
\* S of all of its Payment rows (Paid if and only if S >= grand_total, Partial
\* if and only if 0 < S < grand_total).
C30_StatusAgreesAfterRace ==
    ( /\ \A p \in Callers : pending[p] = NoneValue
      /\ result.op = "add_payment" )
    => \A i \in 1..Len(invoices) :
          (\E k \in 1..Len(payments) : payments[k].invoice_id = i)
          => LET S == get_total_paid(payments, i)
                 G == invoices[i].grand_total
             IN  /\ invoices[i].payment_status = "Paid" <=> S >= G
                 /\ invoices[i].payment_status = "Partial" <=> (0 < S /\ S < G)

====
